---- MODULE Spec2Model ----
(***************************************************************************)
(* Model of integral-philosophy-core: the MarkdownTeX parser               *)
(* (parsers/markdowntex_parser.py), the TEI serializer                     *)
(* (generators/tei_generator.py) and the HTML <-> TEI round-trip validator *)
(* (generators/html_tei_converter.py).                                     *)
(*                                                                         *)
(* A Python str is a sequence of one-character strings.  A Python value    *)
(* whose type the code tests with isinstance / "is None" carries a tag.    *)
(***************************************************************************)
EXTENDS Integers, Sequences, FiniteSets, TLC

VARIABLES
    \* ---- _parse_inline (one call, its top-level while loop) ----
    ipc,             \* "start" | "scan" | "done"
    itext,           \* the argument text
    remaining_text,  \* markdowntex_parser.py:368
    nodes,           \* markdowntex_parser.py:367
    lastSel,         \* history: what the last loop iteration searched and chose
    \* ---- _split_into_blocks (one call, its for loop over lines) ----
    spc,             \* "idle" | "loop" | "returned"
    text,            \* the argument text
    lines,           \* markdowntex_parser.py:174
    li,              \* index in lines of the line the for loop takes next
    blocks,          \* markdowntex_parser.py:168
    current_block,   \* markdowntex_parser.py:169
    in_code_block,   \* markdowntex_parser.py:170
    in_math_block,   \* markdowntex_parser.py:171
    code_fence,      \* markdowntex_parser.py:172
    open_from,       \* history: index in lines of the first line of current_block
    \* ---- parse (one call), then ast_to_dict / dict_to_ast on its result ----
    ppc,             \* "idle" | "start" | "split" | "done" | "raised" | "reloaded"
    markdown_text,   \* the argument of parse
    yaml_installed,  \* whether "import yaml" succeeds where the parser runs
    metadata,        \* markdowntex_parser.py:118
    doc_node,        \* markdowntex_parser.py:127
    bi,              \* index in blocks of the block the for loop of parse takes next
    reloaded,        \* dict_to_ast(ast_to_dict(doc_node))
    \* ---- generate_tei_document, called twice on the same site_ast ----
    gpc,             \* "idle" | "start" | "header" | "toc" | "pages" | "parsing"
                     \* | "done" | "raised"
    site_ast,        \* the argument: [metadata, pages]
    now,             \* what datetime.now() returns: [day, us]
    tei,             \* the parts of tei_root built so far
    page_idx,        \* index in pages of the page the body loop takes next
    outputs,         \* what each finished call returned or raised
    \* ---- test_isomorphism (one call) ----
    vpc,             \* "idle" | "start" | "step2" | "clean" | "structure"
                     \* | "headings" | "links" | "checksums" | "verdict" | "done"
                     \* | "blocked" | "batch" | "returned" | "raised"
    time_imported,   \* whether the name "time" is bound in the module's globals
    original_html,   \* the content of the file test_isomorphism is called on
    final_html,      \* the content of the file tei_to_html wrote
    results,         \* html_tei_converter.py:583
    comparison,      \* html_tei_converter.py:686
    orig_clean,      \* html_tei_converter.py:690
    final_clean,     \* html_tei_converter.py:691
    orig_sections,   \* html_tei_converter.py:703
    final_sections,  \* html_tei_converter.py:704
    orig_headings,   \* html_tei_converter.py:710
    final_headings,  \* html_tei_converter.py:711
    orig_links,      \* html_tei_converter.py:717
    final_links,     \* html_tei_converter.py:718
    orig_file,       \* the content of build/orig_clean.xhtml (line 693)
    final_file,      \* the content of build/final_clean.xhtml (line 694)
    calls,           \* history: the steps test_isomorphism has run, with how each ended
    tool_failed,     \* history: a tidy, saxon or xmllint call of this check
                     \* exited non-zero or was missing
    other_pc,        \* a second check on the same work directory:
                     \* "idle" | "running" | "cleaned"
    \* ---- batch_test_isomorphism (one call) ----
    html_files,      \* the argument: the paths, in order
    file_idx,        \* index in html_files of the file the for loop takes next
    batch            \* html_tei_converter.py:824 (its "results")

inlineVars == <<ipc, itext, remaining_text, nodes, lastSel>>

segVars ==
    <<spc, text, lines, li, blocks, current_block, in_code_block, in_math_block,
      code_fence, open_from>>

parseVars == <<ppc, markdown_text, yaml_installed, metadata, doc_node, bi, reloaded>>

serVars == <<gpc, site_ast, now, tei, page_idx, outputs>>

valVars ==
    <<vpc, time_imported, original_html, final_html, results, comparison,
      orig_clean, final_clean, orig_sections, final_sections, orig_headings,
      final_headings, orig_links, final_links, orig_file, final_file, calls,
      tool_failed, other_pc, html_files, file_idx, batch>>

vars == <<inlineVars, segVars, parseVars, serVars, valVars>>

notInline == <<segVars, parseVars, serVars, valVars>>

notSeg == <<inlineVars, parseVars, serVars, valVars>>

notParse == <<inlineVars, serVars, valVars>>

notSer == <<inlineVars, valVars>>

notVal == <<inlineVars, segVars, parseVars, serVars>>

(***************************************************************************)
(* Bounds                                                                  *)
(***************************************************************************)
MaxParts == 3

MaxSegLines == 4

MaxParseLines == 2

\* how many times datetime.now() moves on, and how many calls of
\* generate_tei_document follow each other
MaxTicks == 2

MaxRuns == 2

(***************************************************************************)
(* Python str helpers                                                      *)
(***************************************************************************)
NL == "\n"

\* the backquote character (a code span or fence marker)
BT == "bq"

WS == {" ", NL}

\* the fence marker and the math-block marker
Fence == <<BT, BT, BT>>

MathMark == <<"$", "$">>

SubStr(s, a, b) == IF a > b THEN <<>> ELSE SubSeq(s, a, b)

\* s[a-1:] in Python terms: the suffix starting at 1-based index a
From(s, a) == SubStr(s, a, Len(s))

RECURSIVE LStrip(_)
LStrip(s) == IF s # <<>> /\ Head(s) \in WS THEN LStrip(Tail(s)) ELSE s

RECURSIVE RStrip(_)
RStrip(s) ==
    IF s # <<>> /\ s[Len(s)] \in WS THEN RStrip(SubStr(s, 1, Len(s) - 1)) ELSE s

Strip(s) == RStrip(LStrip(s))

StartsWith(s, p) == Len(s) >= Len(p) /\ SubStr(s, 1, Len(p)) = p

\* "p in s"
Contains(s, p) ==
    \E i \in 1..(Len(s) - Len(p) + 1) : SubStr(s, i, i + Len(p) - 1) = p

\* the least element of a set of positive integers, 0 for the empty set
Least(S) == IF S = {} THEN 0 ELSE CHOOSE k \in S : \A j \in S : k <= j

\* smallest k >= from with s[k] = c, 0 when there is none
FirstIdx(s, c, from) == Least({k \in from..Len(s) : s[k] = c})

RECURSIVE Split(_, _)
Split(s, c) ==
    LET k == FirstIdx(s, c, 1)
    IN  IF k = 0 THEN <<s>> ELSE <<SubStr(s, 1, k - 1)>> \o Split(From(s, k + 1), c)

RECURSIVE Join(_, _)
Join(ss, c) ==
    IF ss = <<>> THEN <<>>
    ELSE IF Len(ss) = 1 THEN ss[1]
    ELSE ss[1] \o <<c>> \o Join(Tail(ss), c)

RECURSIVE Concat(_)
Concat(ss) == IF ss = <<>> THEN <<>> ELSE Head(ss) \o Concat(Tail(ss))

(***************************************************************************)
(* ASTNode                                                                 *)
(***************************************************************************)
NoneV == [tag |-> "none", val |-> <<>>]
StrV(s) == [tag |-> "str", val |-> s]
ListV(l) == [tag |-> "list", val |-> l]
IntV(n) == [tag |-> "int", val |-> n]
BoolV(b) == [tag |-> "bool", val |-> b]
DictV(d) == [tag |-> "dict", val |-> d]

EmptyDict == [k \in {} |-> NoneV]

\* the str "latex"
Latex == <<"l", "a", "t", "e", "x">>

\* ASTNode(type, content, attributes, position) with __post_init__:
\* attributes None -> {}, position None -> {}
ASTNode(type, content, attributes, position) ==
    [type |-> type,
     content |-> content,
     attributes |-> IF attributes = NoneV THEN EmptyDict ELSE attributes,
     position |-> IF position = NoneV THEN EmptyDict ELSE position]

(***************************************************************************)
(* The six inline patterns.  A match is [found, start, end, g1, g2] with   *)
(* 1-based inclusive start/end; re.search returns the leftmost match.      *)
(***************************************************************************)
NoMatch == [found |-> FALSE, start |-> 0, end |-> 0, g1 |-> <<>>, g2 |-> <<>>]

\* c([^c]+)c anchored at i: inline_code with c = BT, inline_math with c = "$",
\* emphasis with c = "*"
DelimAt(t, i, c) ==
    LET j == FirstIdx(t, c, i + 1)
    IN  IF i <= Len(t) /\ t[i] = c /\ j >= i + 2
        THEN [found |-> TRUE, start |-> i, end |-> j,
              g1 |-> SubStr(t, i + 1, j - 1), g2 |-> <<>>]
        ELSE NoMatch

\* \*\*([^*]+)\*\* anchored at i
StrongAt(t, i) ==
    LET j == FirstIdx(t, "*", i + 2)
    IN  IF i + 1 <= Len(t) /\ t[i] = "*" /\ t[i + 1] = "*"
           /\ j >= i + 3 /\ j + 1 <= Len(t) /\ t[j + 1] = "*"
        THEN [found |-> TRUE, start |-> i, end |-> j + 1,
              g1 |-> SubStr(t, i + 2, j - 1), g2 |-> <<>>]
        ELSE NoMatch

\* \[([^\]]{min,})\]\(([^)]+)\) with the "[" at index b; min = 1 for link,
\* 0 for image
BracketAt(t, b, min, start) ==
    LET j == FirstIdx(t, "]", b + 1)
        k == IF j = 0 THEN 0 ELSE FirstIdx(t, ")", j + 2)
    IN  IF b <= Len(t) /\ t[b] = "[" /\ j >= b + 1 + min
           /\ j + 1 <= Len(t) /\ t[j + 1] = "(" /\ k >= j + 3
        THEN [found |-> TRUE, start |-> start, end |-> k,
              g1 |-> SubStr(t, b + 1, j - 1), g2 |-> SubStr(t, j + 2, k - 1)]
        ELSE NoMatch

LinkAt(t, i) == BracketAt(t, i, 1, i)

ImageAt(t, i) ==
    IF i <= Len(t) /\ t[i] = "!" THEN BracketAt(t, i + 1, 0, i) ELSE NoMatch

PatternAt(name, t, i) ==
    CASE name = "image" -> ImageAt(t, i)
      [] name = "link" -> LinkAt(t, i)
      [] name = "inline_code" -> DelimAt(t, i, BT)
      [] name = "inline_math" -> DelimAt(t, i, "$")
      [] name = "strong" -> StrongAt(t, i)
      [] name = "emphasis" -> DelimAt(t, i, "*")

\* pattern.search(t)
Search(name, t) ==
    LET i == Least({k \in 1..Len(t) : PatternAt(name, t, k).found})
    IN  IF i = 0 THEN NoMatch ELSE PatternAt(name, t, i)

\* the list "patterns" of _parse_inline, in its order
patterns == <<"image", "link", "inline_code", "inline_math", "strong", "emphasis">>

\* the for loop over patterns: the index of the pattern whose branch runs
\* (the first one, in list order, that matches anywhere), 0 when none matches
SelectPattern(t) == Least({p \in 1..Len(patterns) : Search(patterns[p], t).found})

RECURSIVE ParseInline(_)
RECURSIVE MatchedNode(_, _)
RECURSIVE IterNodes(_)

\* the typed node built from match m of pattern name
MatchedNode(name, m) ==
    CASE name = "image" ->
           ASTNode("image", NoneV, [alt |-> StrV(m.g1), src |-> StrV(m.g2)], NoneV)
      [] name = "link" ->
           ASTNode("link", ListV(ParseInline(m.g1)), [href |-> StrV(m.g2)], NoneV)
      [] name = "inline_code" ->
           ASTNode("inline_code", StrV(m.g1), NoneV, NoneV)
      [] name = "inline_math" ->
           ASTNode("inline_math", StrV(m.g1), [format |-> StrV(Latex)], NoneV)
      [] name = "strong" ->
           ASTNode("strong", ListV(ParseInline(m.g1)), NoneV, NoneV)
      [] name = "emphasis" ->
           ASTNode("emphasis", ListV(ParseInline(m.g1)), NoneV, NoneV)

\* a text node whose content lost its surrounding whitespace
TextNodeStripped(s) == ASTNode("text", StrV(Strip(s)), NoneV, NoneV)

\* lines 438-441
TextNode(s) == ASTNode("text", StrV(s), NoneV, NoneV)

\* the nodes one iteration of the while loop appends for remaining text t
IterNodes(t) ==
    LET p == SelectPattern(t)
        m == Search(patterns[p], t)
    IN  IF p = 0 THEN <<TextNode(t)>>
        ELSE (IF m.start > 1 THEN <<TextNode(SubStr(t, 1, m.start - 1))>> ELSE <<>>)
             \o <<MatchedNode(patterns[p], m)>>

\* remaining_text after one iteration
IterRest(t) ==
    LET p == SelectPattern(t)
    IN  IF p = 0 THEN <<>> ELSE From(t, Search(patterns[p], t).end + 1)

\* _parse_inline as a function (used for nested calls and by the block parsers)
ParseInline(t) ==
    IF t = <<>> THEN <<>> ELSE IterNodes(t) \o ParseInline(IterRest(t))

(***************************************************************************)
(* _parse_block and the block builders                                     *)
(***************************************************************************)
Digits == {"0", "1", "2", "3", "4", "5", "6", "7", "8", "9"}

\* the number of consecutive characters of s from index p on that are in set
RECURSIVE RunLen(_, _, _)
RunLen(s, p, set) ==
    IF p <= Len(s) /\ s[p] \in set THEN 1 + RunLen(s, p + 1, set) ELSE 0

\* index of the last character of the line of s that holds index p
LineEnd(s, p) ==
    LET k == FirstIdx(s, NL, p) IN IF k = 0 THEN Len(s) ELSE k - 1

\* \s+(.+)$ matched at index p of s (re.MULTILINE, no DOTALL): \s+ takes the
\* longest run of whitespace that still leaves (.+) a character of a line
WsThenGroup(s, p) ==
    LET w == RunLen(s, p, WS)
        ks == {k \in 1..w : p + k <= Len(s) /\ s[p + k] # NL}
        k == CHOOSE x \in ks : \A y \in ks : y <= x
    IN  IF ks = {} THEN NoMatch
        ELSE [found |-> TRUE, start |-> p + k, end |-> LineEnd(s, p + k),
              g1 |-> SubStr(s, p + k, LineEnd(s, p + k)), g2 |-> <<>>]

\* patterns["heading"].match(s): ^(#{1,6})\s+(.+)$ ; g2 is the level
HeadingMatch(s) ==
    LET h == RunLen(s, 1, {"#"})
        m == WsThenGroup(s, h + 1)
    IN  IF h >= 1 /\ h <= 6 /\ m.found THEN [m EXCEPT !.g2 = h] ELSE NoMatch

\* patterns["list_item"].match(s): ^\s*[-*+]\s+(.+)$
ListItemMatch(s) ==
    LET l == RunLen(s, 1, WS)
    IN  IF l + 1 <= Len(s) /\ s[l + 1] \in {"-", "*", "+"}
        THEN WsThenGroup(s, l + 2) ELSE NoMatch

\* patterns["ordered_list_item"].match(s): ^\s*\d+\.\s+(.+)$
OrderedItemMatch(s) ==
    LET l == RunLen(s, 1, WS)
        d == RunLen(s, l + 1, Digits)
    IN  IF d >= 1 /\ l + d + 1 <= Len(s) /\ s[l + d + 1] = "."
        THEN WsThenGroup(s, l + d + 2) ELSE NoMatch

TexBegin == <<"\\", "b", "e", "g", "i", "n", "{">>

TexEnd == <<"\\", "e", "n", "d", "{">>

\* the keys of tex_patterns, in dict order, each with the environment names
\* its pattern accepts (align accepts align and align*)
tex_patterns ==
    << [name |-> <<"e", "q", "u", "a", "t", "i", "o", "n">>,
        envs |-> {<<"e", "q", "u", "a", "t", "i", "o", "n">>}],
       [name |-> <<"a", "l", "i", "g", "n">>,
        envs |-> {<<"a", "l", "i", "g", "n">>, <<"a", "l", "i", "g", "n", "*">>}],
       [name |-> <<"g", "a", "t", "h", "e", "r">>,
        envs |-> {<<"g", "a", "t", "h", "e", "r">>}],
       [name |-> <<"t", "h", "e", "o", "r", "e", "m">>,
        envs |-> {<<"t", "h", "e", "o", "r", "e", "m">>}],
       [name |-> <<"p", "r", "o", "o", "f">>,
        envs |-> {<<"p", "r", "o", "o", "f">>}] >>

\* pattern.match(block) for \\begin\{env\}(.*?)\\end\{env\} with re.DOTALL
TexMatch(block, envs) ==
    \E b \in envs :
        /\ StartsWith(block, TexBegin \o b \o <<"}">>)
        /\ \E e \in envs :
              Contains(From(block, Len(TexBegin \o b) + 2), TexEnd \o e \o <<"}">>)

\* the first key of tex_patterns whose pattern matches, 0 when none does
TexType(block) ==
    Least({i \in 1..Len(tex_patterns) : TexMatch(block, tex_patterns[i].envs)})

\* str.strip(chars)
RECURSIVE StripChars(_, _)
StripChars(s, set) ==
    IF s # <<>> /\ Head(s) \in set THEN StripChars(Tail(s), set)
    ELSE IF s # <<>> /\ s[Len(s)] \in set
         THEN StripChars(SubStr(s, 1, Len(s) - 1), set)
         ELSE s

\* str.replace(c, "")
Remove(s, c) == SelectSeq(s, LAMBDA x : x # c)

\* lines 272-277
ParseMathBlock(t) ==
    ASTNode("math_block", StrV(StripChars(t, {"$", NL})),
            [format |-> StrV(Latex)], NoneV)

\* lines 279-291
ParseCodeBlock(t) ==
    LET ls == Split(Strip(t), NL)
    IN  IF ls # <<>> /\ StartsWith(ls[1], Fence)
        THEN ASTNode("code_block",
                     StrV(Join(SubStr(ls, 2, Len(ls) - 1), NL)),
                     [language |-> StrV(Strip(From(ls[1], 4)))], NoneV)
        ELSE ASTNode("code_block", StrV(t), [language |-> StrV(<<>>)], NoneV)

\* lines 293-299
ParseTexBlock(t, tex_type) ==
    ASTNode("math_block", StrV(t),
            [format |-> StrV(Latex), environment |-> StrV(tex_type)], NoneV)

\* a list_item that holds the text of its line and not the nodes scanned from it
ListItemOfText(line) ==
    IF OrderedItemMatch(line).found
    THEN <<ASTNode("list_item", StrV(OrderedItemMatch(line).g1), NoneV, NoneV)>>
    ELSE IF ListItemMatch(line).found
    THEN <<ASTNode("list_item", StrV(ListItemMatch(line).g1), NoneV, NoneV)>>
    ELSE <<>>

\* the list_item node of one line of a list block, <<>> when the line is no item
ListItemOf(line) ==
    IF OrderedItemMatch(line).found
    THEN <<ASTNode("list_item", ListV(ParseInline(OrderedItemMatch(line).g1)),
                   NoneV, NoneV)>>
    ELSE IF ListItemMatch(line).found
    THEN <<ASTNode("list_item", ListV(ParseInline(ListItemMatch(line).g1)),
                   NoneV, NoneV)>>
    ELSE <<>>

\* _parse_list that takes the ordered flag from the first line of the block
ParseListFirstLine(t) ==
    LET ls == Split(Strip(t), NL)
    IN  ASTNode("list",
                ListV(Concat([i \in 1..Len(ls) |-> ListItemOf(ls[i])])),
                [ordered |-> BoolV(OrderedItemMatch(ls[1]).found)],
                NoneV)

\* lines 301-322
ParseList(t) ==
    LET ls == Split(Strip(t), NL)
    IN  ASTNode("list",
                ListV(Concat([i \in 1..Len(ls) |-> ListItemOf(ls[i])])),
                [ordered |-> BoolV(\E i \in 1..Len(ls) : OrderedItemMatch(ls[i]).found)],
                NoneV)

\* lines 332-341: the table_row node of one line
TableRowOf(line) ==
    LET parts == Split(line, "|")
        cells == SubStr(parts, 2, Len(parts) - 1)
    IN  ASTNode("table_row",
                ListV([i \in 1..Len(cells) |->
                          ASTNode("table_cell", ListV(ParseInline(Strip(cells[i]))),
                                  NoneV, NoneV)]),
                NoneV, NoneV)

\* lines 324-343
ParseTable(t) ==
    LET ls == SelectSeq(Split(Strip(t), NL), LAMBDA l : StartsWith(Strip(l), <<"|">>))
    IN  ASTNode("table", ListV([i \in 1..Len(ls) |-> TableRowOf(ls[i])]),
                NoneV, NoneV)

\* lines 345-358
ParseQuote(t) ==
    LET ls == SelectSeq(Split(Strip(t), NL), LAMBDA l : StartsWith(Strip(l), <<">">>))
        quoted == [i \in 1..Len(ls) |-> Strip(Tail(Strip(ls[i])))]
    IN  ASTNode("quote", ListV(ParseInline(Join(quoted, NL))), NoneV, NoneV)

\* lines 360-363
ParseParagraph(t) == ASTNode("paragraph", ListV(ParseInline(Strip(t))), NoneV, NoneV)

\* lines 241-249
ParseHeading(t) ==
    LET m == HeadingMatch(Strip(t))
    IN  ASTNode("heading", ListV(ParseInline(m.g1)), [level |-> IntV(m.g2)], NoneV)

\* the tests of _parse_block, in the order of its if statements
blockTests ==
    <<"math", "code", "tex", "heading", "list", "table", "quote", "thematic",
      "paragraph">>

\* whether block passes the named test of _parse_block
BlockTest(name, block) ==
    CASE name = "math" -> Contains(block, MathMark)
      [] name = "code" -> StartsWith(Strip(block), Fence)
      [] name = "tex" -> TexType(block) # 0
      [] name = "heading" -> HeadingMatch(Strip(block)).found
      [] name = "list" -> ListItemMatch(block).found \/ OrderedItemMatch(block).found
      [] name = "table" -> Contains(block, <<"|">>) /\ StartsWith(Strip(block), <<"|">>)
      [] name = "quote" -> StartsWith(Strip(block), <<">">>)
      [] name = "thematic" -> Strip(Remove(Strip(block), "-")) = <<>>
      [] name = "paragraph" -> TRUE

\* _parse_block with the thematic-break test ahead of the list test
ParseBlockThematicBeforeList(block) ==
    IF Strip(block) = <<>> THEN NoneV
    ELSE IF BlockTest("math", block) THEN ParseMathBlock(block)
    ELSE IF BlockTest("code", block) THEN ParseCodeBlock(block)
    ELSE IF BlockTest("tex", block)
         THEN ParseTexBlock(block, tex_patterns[TexType(block)].name)
    ELSE IF BlockTest("heading", block) THEN ParseHeading(block)
    ELSE IF BlockTest("thematic", block)
         THEN ASTNode("thematic_break", NoneV, NoneV, NoneV)
    ELSE IF BlockTest("list", block) THEN ParseList(block)
    ELSE IF BlockTest("table", block) THEN ParseTable(block)
    ELSE IF BlockTest("quote", block) THEN ParseQuote(block)
    ELSE ParseParagraph(block)

\* lines 223-270: NoneV for a blank block, else the node of the first test passed
ParseBlock(block) ==
    IF Strip(block) = <<>> THEN NoneV
    ELSE IF BlockTest("math", block) THEN ParseMathBlock(block)
    ELSE IF BlockTest("code", block) THEN ParseCodeBlock(block)
    ELSE IF BlockTest("tex", block)
         THEN ParseTexBlock(block, tex_patterns[TexType(block)].name)
    ELSE IF BlockTest("heading", block) THEN ParseHeading(block)
    ELSE IF BlockTest("list", block) THEN ParseList(block)
    ELSE IF BlockTest("table", block) THEN ParseTable(block)
    ELSE IF BlockTest("quote", block) THEN ParseQuote(block)
    ELSE IF BlockTest("thematic", block)
         THEN ASTNode("thematic_break", NoneV, NoneV, NoneV)
    ELSE ParseParagraph(block)

(***************************************************************************)
(* The parts of the state a specification does not use stay as constructed *)
(***************************************************************************)
NoSel == [text |-> <<>>, pat |-> 0, start |-> 0]

InlineIdle ==
    /\ ipc = "idle"
    /\ itext = <<>>
    /\ remaining_text = <<>>
    /\ nodes = <<>>
    /\ lastSel = NoSel

SegIdle ==
    /\ spc = "idle"
    /\ text = <<>>
    /\ lines = <<>>
    /\ li = 1
    /\ blocks = <<>>
    /\ current_block = <<>>
    /\ in_code_block = FALSE
    /\ in_math_block = FALSE
    /\ code_fence = NoneV
    /\ open_from = 1

ParseIdle ==
    /\ ppc = "idle"
    /\ markdown_text = <<>>
    /\ yaml_installed = FALSE
    /\ metadata = NoneV
    /\ doc_node = NoneV
    /\ bi = 1
    /\ reloaded = NoneV

\* tei_root before generate_tei_header has run
NoTei == [when |-> NoneV, date |-> NoneV, toc |-> <<>>, divs |-> <<>>]

SerIdle ==
    /\ gpc = "idle"
    /\ site_ast = EmptyDict
    /\ now = [day |-> 0, us |-> 0]
    /\ tei = NoTei
    /\ page_idx = 1
    /\ outputs = <<>>

\* the content of a file: what the structural comparison extracts from it
\* and the bytes the checksum is taken of
Form(s, h, l, b) == [sections |-> s, headings |-> h, links |-> l, bytes |-> b]

\* the empty str
Blank == Form(0, <<>>, <<>>, "")

\* the locals of _compare_html_files before it runs
CompareIdle ==
    /\ comparison = EmptyDict
    /\ orig_clean = Blank
    /\ final_clean = Blank
    /\ orig_sections = 0
    /\ final_sections = 0
    /\ orig_headings = <<>>
    /\ final_headings = <<>>
    /\ orig_links = <<>>
    /\ final_links = <<>>

\* no batch call in progress
BatchIdle ==
    /\ html_files = <<>>
    /\ file_idx = 0
    /\ batch = EmptyDict

\* a fresh work directory, no check started, no second check
CheckIdle ==
    /\ orig_file = Blank
    /\ final_file = Blank
    /\ calls = <<>>
    /\ tool_failed = FALSE
    /\ other_pc = "idle"

ValIdle ==
    /\ vpc = "idle"
    /\ time_imported = FALSE
    /\ original_html = Blank
    /\ final_html = Blank
    /\ results = EmptyDict
    /\ CompareIdle
    /\ CheckIdle
    /\ BatchIdle

(***************************************************************************)
(* _parse_inline, one call, iteration by iteration                         *)
(***************************************************************************)
Fragments ==
    { <<"a">>, <<" ">>, <<"*">>, <<BT>>, <<"$">>,
      <<"*", "a", "*">>, <<"*", "*", "s", "*", "*">>,
      <<"[", "b", "]", "(", "c", ")">>,
      <<"[", "*", "a", "*", "]", "(", "c", ")">>,
      <<"!", "[", "i", "]", "(", "u", ")">> }

RECURSIVE TextsOf(_)
TextsOf(n) ==
    IF n = 0 THEN {<<>>}
    ELSE LET shorter == TextsOf(n - 1)
         IN  shorter \cup {f \o s : f \in Fragments, s \in shorter}

InlineTexts == TextsOf(MaxParts)

InitInline ==
    /\ ipc = "start"
    /\ itext \in InlineTexts
    /\ remaining_text = <<>>
    /\ nodes = <<>>
    /\ lastSel = NoSel
    /\ SegIdle
    /\ ParseIdle
    /\ SerIdle
    /\ ValIdle

\* lines 367-368
InlineEnter ==
    /\ ipc = "start"
    /\ ipc' = "scan"
    /\ remaining_text' = itext
    /\ nodes' = <<>>
    /\ UNCHANGED <<itext, lastSel>>
    /\ UNCHANGED notInline

\* one iteration of "while remaining_text" in which a pattern matched
InlineMatch ==
    /\ ipc = "scan"
    /\ remaining_text # <<>>
    /\ SelectPattern(remaining_text) # 0
    /\ nodes' = nodes \o IterNodes(remaining_text)
    /\ remaining_text' = IterRest(remaining_text)
    /\ lastSel' = [text |-> remaining_text,
                   pat |-> SelectPattern(remaining_text),
                   start |-> Search(patterns[SelectPattern(remaining_text)],
                                    remaining_text).start]
    /\ UNCHANGED <<ipc, itext>>
    /\ UNCHANGED notInline

\* the iteration in which no pattern matched: trailing text, break
InlineNoMatch ==
    /\ ipc = "scan"
    /\ remaining_text # <<>>
    /\ SelectPattern(remaining_text) = 0
    /\ nodes' = nodes \o IterNodes(remaining_text)
    /\ ipc' = "done"
    /\ UNCHANGED <<itext, remaining_text, lastSel>>
    /\ UNCHANGED notInline

\* the loop condition fails: return nodes
InlineReturn ==
    /\ ipc = "scan"
    /\ remaining_text = <<>>
    /\ ipc' = "done"
    /\ UNCHANGED <<itext, remaining_text, nodes, lastSel>>
    /\ UNCHANGED notInline

NextInline == InlineEnter \/ InlineMatch \/ InlineNoMatch \/ InlineReturn

SpecInline == InitInline /\ [][NextInline]_vars

\* C1: at every iteration of the scan the match that is consumed is the one
\* with the smallest start offset among the matches of the six candidates in
\* the remaining text (so a construct that starts before a higher-priority one
\* is still recognised as its own node).
C1_EarliestMatchSelected ==
    lastSel.pat # 0 =>
        \A p \in 1..Len(patterns) :
            Search(patterns[p], lastSel.text).found =>
                lastSel.start <= Search(patterns[p], lastSel.text).start

(***************************************************************************)
(* _split_into_blocks, one call, line by line                              *)
(***************************************************************************)
\* line.strip().startswith("```")
IsFenceLine(line) == StartsWith(Strip(line), Fence)

\* "$$" in line
HasMath(line) == Contains(line, MathMark)

\* blocks.append(current_block.strip()) under "if current_block.strip():"
FlushIfContent(bs, cur) == IF Strip(cur) # <<>> THEN Append(bs, Strip(cur)) ELSE bs

\* lines 165-174: the call, up to the first iteration
SegEnter(t) ==
    /\ spc' = "loop"
    /\ text' = t
    /\ lines' = Split(t, NL)
    /\ li' = 1
    /\ blocks' = <<>>
    /\ current_block' = <<>>
    /\ in_code_block' = FALSE
    /\ in_math_block' = FALSE
    /\ code_fence' = NoneV
    /\ open_from' = 1

\* lines 178-185, 192: a fence line outside a code block
SegFenceOpen ==
    /\ spc = "loop" /\ li <= Len(lines)
    /\ IsFenceLine(lines[li])
    /\ ~in_code_block
    /\ blocks' = FlushIfContent(blocks, current_block)
    /\ in_code_block' = TRUE
    /\ code_fence' = StrV(Strip(lines[li]))
    /\ current_block' = lines[li] \o <<NL>>
    /\ open_from' = li
    /\ li' = li + 1
    /\ UNCHANGED <<spc, text, lines, in_math_block>>
    /\ UNCHANGED notSeg

\* lines 186-192: a fence line inside a code block
SegFenceClose ==
    /\ spc = "loop" /\ li <= Len(lines)
    /\ IsFenceLine(lines[li])
    /\ in_code_block
    /\ blocks' = Append(blocks, Strip(current_block \o lines[li] \o <<NL>>))
    /\ current_block' = <<>>
    /\ in_code_block' = FALSE
    /\ code_fence' = NoneV
    /\ open_from' = li + 1
    /\ li' = li + 1
    /\ UNCHANGED <<spc, text, lines, in_math_block>>
    /\ UNCHANGED notSeg

\* lines 195-201: a line with "$$" while in_math_block is unset
SegMathOpen ==
    /\ spc = "loop" /\ li <= Len(lines)
    /\ ~IsFenceLine(lines[li])
    /\ HasMath(lines[li]) /\ ~in_math_block
    /\ blocks' = FlushIfContent(blocks, current_block)
    /\ in_math_block' = TRUE
    /\ current_block' = lines[li] \o <<NL>>
    /\ open_from' = li
    /\ li' = li + 1
    /\ UNCHANGED <<spc, text, lines, in_code_block, code_fence>>
    /\ UNCHANGED notSeg

\* lines 202-207: a line with "$$" while in_math_block is set
SegMathClose ==
    /\ spc = "loop" /\ li <= Len(lines)
    /\ ~IsFenceLine(lines[li])
    /\ HasMath(lines[li]) /\ in_math_block
    /\ blocks' = Append(blocks, Strip(current_block \o lines[li] \o <<NL>>))
    /\ current_block' = <<>>
    /\ in_math_block' = FALSE
    /\ open_from' = li + 1
    /\ li' = li + 1
    /\ UNCHANGED <<spc, text, lines, in_code_block, code_fence>>
    /\ UNCHANGED notSeg

\* SegAppend that emits at a separator but keeps current_block
SegAppendNoReset ==
    /\ spc = "loop" /\ li <= Len(lines)
    /\ ~IsFenceLine(lines[li])
    /\ ~HasMath(lines[li])
    /\ LET cur == current_block \o lines[li] \o <<NL>>
           sep == ~in_code_block /\ ~in_math_block /\ Strip(lines[li]) = <<>>
       IN  /\ blocks' = IF sep THEN FlushIfContent(blocks, cur) ELSE blocks
           /\ current_block' = cur
           /\ open_from' = open_from
    /\ li' = li + 1
    /\ UNCHANGED <<spc, text, lines, in_code_block, in_math_block, code_fence>>
    /\ UNCHANGED notSeg

\* lines 209-215: any other line; a blank one outside code and math separates
SegAppend ==
    /\ spc = "loop" /\ li <= Len(lines)
    /\ ~IsFenceLine(lines[li])
    /\ ~HasMath(lines[li])
    /\ LET cur == current_block \o lines[li] \o <<NL>>
           sep == ~in_code_block /\ ~in_math_block /\ Strip(lines[li]) = <<>>
       IN  /\ blocks' = IF sep THEN FlushIfContent(blocks, cur) ELSE blocks
           /\ current_block' = IF sep /\ Strip(cur) # <<>> THEN <<>> ELSE cur
           /\ open_from' = IF sep /\ Strip(cur) # <<>> THEN li + 1 ELSE open_from
    /\ li' = li + 1
    /\ UNCHANGED <<spc, text, lines, in_code_block, in_math_block, code_fence>>
    /\ UNCHANGED notSeg

\* SegReturn without the "Add remaining content" step of lines 217-219
SegReturnNoFlush ==
    /\ spc = "loop" /\ li > Len(lines)
    /\ blocks' = SelectSeq(blocks, LAMBDA b : Strip(b) # <<>>)
    /\ spc' = "returned"
    /\ UNCHANGED <<text, lines, li, current_block, in_code_block, in_math_block,
                   code_fence, open_from>>
    /\ UNCHANGED notSeg

\* lines 217-221: the loop is over; remaining content, the final filter, return
SegReturn ==
    /\ spc = "loop" /\ li > Len(lines)
    /\ blocks' = SelectSeq(FlushIfContent(blocks, current_block),
                           LAMBDA b : Strip(b) # <<>>)
    /\ spc' = "returned"
    /\ UNCHANGED <<text, lines, li, current_block, in_code_block, in_math_block,
                   code_fence, open_from>>
    /\ UNCHANGED notSeg

SegStep ==
    SegFenceOpen \/ SegFenceClose \/ SegMathOpen \/ SegMathClose \/ SegAppend
    \/ SegReturn

\* the texts _split_into_blocks is called on: up to MaxSegLines lines
SegLines ==
    { <<>>, <<" ">>, <<"a">>, <<" ", "b">>, Fence, <<" ">> \o Fence \o <<"p">>,
      MathMark, <<"$", "$", "x", "$", "$">> }

RECURSIVE LineSeqs(_, _)
LineSeqs(L, n) ==
    IF n = 0 THEN {<<>>}
    ELSE LET shorter == LineSeqs(L, n - 1)
         IN  shorter \cup {<<l>> \o s : l \in L, s \in shorter}

SegTexts == {Join(ls, NL) : ls \in LineSeqs(SegLines, MaxSegLines) \ {<<>>}}

InitSeg ==
    /\ InlineIdle
    /\ ParseIdle
    /\ SerIdle
    /\ ValIdle
    /\ spc = "idle"
    /\ text \in SegTexts
    /\ lines = <<>>
    /\ li = 1
    /\ blocks = <<>>
    /\ current_block = <<>>
    /\ in_code_block = FALSE
    /\ in_math_block = FALSE
    /\ code_fence = NoneV
    /\ open_from = 1

SegCall ==
    /\ spc = "idle"
    /\ SegEnter(text)
    /\ UNCHANGED notSeg

NextSeg == SegCall \/ SegStep

SpecSeg == InitSeg /\ [][NextSeg]_vars

\* the lines of ls that are not blank, each without its surrounding whitespace
StrippedNonBlank(ls) ==
    SelectSeq([i \in 1..Len(ls) |-> Strip(ls[i])], LAMBDA l : l # <<>>)

\* lines[a..] as the loop accumulates them: each followed by a newline
Accumulated(ls, a) == Concat([i \in 1..(Len(ls) - a + 1) |-> ls[a + i - 1] \o <<NL>>])

\* C2: inside a fence every line that is not a fence line is appended to the
\* open segment and emits nothing, whatever it contains; a fence line closes
\* the fence and emits exactly one segment.
C2_InFenceAccumulates ==
    [][(spc = "loop" /\ in_code_block /\ li <= Len(lines)) =>
          IF IsFenceLine(lines[li])
          THEN Len(blocks') = Len(blocks) + 1 /\ ~in_code_block'
          ELSE /\ blocks' = blocks
               /\ current_block' = current_block \o lines[li] \o <<NL>>
               /\ in_code_block']_vars

\* C3: the non-blank lines of the emitted segments, read in order, are the
\* non-blank lines of the input, in order: none lost, none duplicated (a line
\* is compared without its surrounding whitespace, which strip() removes at
\* the edges of a segment).
C3_SegmentsKeepContent ==
    spc = "returned" =>
        Concat([i \in 1..Len(blocks) |-> StrippedNonBlank(Split(blocks[i], NL))])
            = StrippedNonBlank(lines)

\* C3 witness: a text with blank lines and fence and math lines, split into at
\* least three segments.
C3_Witness ==
    /\ spc = "returned"
    /\ Len(blocks) >= 3
    /\ \E i \in 1..Len(lines) : Strip(lines[i]) = <<>>
    /\ \E i \in 1..Len(lines) : IsFenceLine(lines[i])
    /\ \E i \in 1..Len(lines) : HasMath(lines[i])

\* C5: when the input ends with non-blank content accumulated in the open
\* segment, in whatever state, the last emitted segment is everything
\* accumulated since that segment was opened.
C5_EndOfInputForceClose ==
    (spc = "returned" /\ Strip(Accumulated(lines, open_from)) # <<>>) =>
        /\ blocks # <<>>
        /\ blocks[Len(blocks)] = Strip(Accumulated(lines, open_from))

\* C5 witness: the input ended inside an unterminated fence that holds a code
\* line, after an earlier segment was emitted.
C5_Witness ==
    /\ spc = "returned"
    /\ in_code_block /\ ~in_math_block
    /\ open_from > 1 /\ open_from < Len(lines)
    /\ Len(blocks) >= 2
    /\ Strip(lines[Len(lines)]) # <<>>

(***************************************************************************)
(* parse: front matter, then the segmenter, then _parse_block per segment  *)
(***************************************************************************)
Letters ==
    {"a", "b", "c", "d", "e", "f", "g", "h", "i", "j", "k", "l", "m", "n", "o",
     "p", "q", "r", "s", "t", "u", "v", "w", "x", "y", "z",
     "A", "B", "C", "D", "E", "F", "G", "H", "I", "J", "K", "L", "M", "N", "O",
     "P", "Q", "R", "S", "T", "U", "V", "W", "X", "Y", "Z"}

\* a line "---" followed by whitespace only: what ^---\s* and \n---\s* accept
IsDashLine(l) == StartsWith(l, <<"-", "-", "-">>) /\ Strip(From(l, 4)) = <<>>

\* where a greedy \s*\n that starts inside line i ends: the first line after
\* i that is not blank, or the last line when all of them are blank
AfterBlank(ls, i) ==
    LET nb == {j \in (i + 1)..Len(ls) : Strip(ls[j]) # <<>>}
    IN  IF nb = {} THEN Len(ls) ELSE CHOOSE j \in nb : \A k \in nb : j <= k

NoMeta == [found |-> FALSE, body |-> <<>>, next |-> 0]

\* patterns["metadata"] = ^---\s*\n(.*?)\n---\s*\n (MULTILINE | DOTALL) matched
\* at the start of line i of ls: body is group(1), next the line the match
\* ends in front of
MetaMatchAt(ls, i) ==
    LET n == Len(ls)
        closes(s) == {j \in s..(n - 2) : IsDashLine(ls[j + 1])}
        starts == {s \in (i + 1)..AfterBlank(ls, i) : closes(s) # {}}
        s0 == CHOOSE s \in starts : \A t \in starts : t <= s
        j0 == CHOOSE j \in closes(s0) : \A k \in closes(s0) : j <= k
    IN  IF i < n /\ IsDashLine(ls[i]) /\ starts # {}
        THEN [found |-> TRUE, body |-> Join(SubStr(ls, s0, j0), NL),
              next |-> AfterBlank(ls, j0 + 1)]
        ELSE NoMeta

\* patterns["metadata"].sub("", text) on the lines of text: every match, at
\* whatever line it starts, is removed
RECURSIVE MetaSub(_, _)
MetaSub(ls, i) ==
    IF i > Len(ls) THEN <<>>
    ELSE IF MetaMatchAt(ls, i).found THEN MetaSub(ls, MetaMatchAt(ls, i).next)
    ELSE <<ls[i]>> \o MetaSub(ls, i + 1)

\* lines 156-162: the key-value fallback used when yaml cannot be imported
FallbackMetadata(body) ==
    LET ls == SelectSeq(Split(Strip(body), NL), LAMBDA l : Contains(l, <<":">>))
        key(l) == Strip(SubStr(l, 1, FirstIdx(l, ":", 1) - 1))
        value(l) == Strip(From(l, FirstIdx(l, ":", 1) + 1))
        last(k) == CHOOSE i \in 1..Len(ls) :
                       key(ls[i]) = k /\ \A j \in 1..Len(ls) : key(ls[j]) = k => j <= i
    IN  DictV([k \in {key(ls[i]) : i \in 1..Len(ls)} |-> StrV(value(ls[last(k)]))])

\* a line "key: value" of letters only
IsKeyValueLine(l) ==
    LET c == FirstIdx(l, ":", 1)
    IN  /\ c >= 2 /\ c + 2 <= Len(l) /\ l[c + 1] = " "
        /\ \A i \in 1..Len(l) : i \notin {c, c + 1} => l[i] \in Letters

IsPlainLine(l) == l # <<>> /\ \A i \in 1..Len(l) : l[i] \in Letters

\* yaml.safe_load(body), a library outside the repository: the outcomes it can
\* have.  An empty document loads as None, "key: value" lines as a mapping,
\* plain words as one str, and a flow sequence left open is a YAMLError; for
\* any other body the outcome is left open.
YamlSafeLoad(body) ==
    LET ls == SelectSeq(Split(body, NL), LAMBDA l : Strip(l) # <<>>)
        ok(v) == [raised |-> FALSE, value |-> v]
        err == [raised |-> TRUE, value |-> NoneV]
    IN  IF ls = <<>> THEN {ok(NoneV)}
        ELSE IF Contains(body, <<"[">>) /\ ~Contains(body, <<"]">>) THEN {err}
        ELSE IF \A i \in 1..Len(ls) : IsKeyValueLine(ls[i])
             THEN {ok(FallbackMetadata(body))}
        ELSE IF \A i \in 1..Len(ls) : IsPlainLine(ls[i])
             THEN {ok(StrV(Join(ls, " ")))}
        ELSE {err, ok(NoneV), ok(StrV(Strip(body)))}

\* lines 146-163: the outcomes of _extract_metadata(text)
ExtractMetadata(t, yaml) ==
    LET m == MetaMatchAt(Split(t, NL), 1)
    IN  IF ~m.found THEN {[raised |-> FALSE, value |-> NoneV]}
        ELSE IF yaml THEN YamlSafeLoad(m.body)
        ELSE {[raised |-> FALSE, value |-> FallbackMetadata(m.body)]}

\* Python truth value of a tagged value
Truthy(v) ==
    CASE v.tag = "none" -> FALSE
      [] v.tag = "dict" -> DOMAIN v.val # {}
      [] v.tag = "bool" -> v.val
      [] v.tag = "int" -> v.val # 0
      [] OTHER -> v.val # <<>>

\* lines 121-124
ContentText(t, md) ==
    IF Truthy(md) THEN Strip(Join(MetaSub(Split(t, NL), 1), NL)) ELSE t

\* lines 118-134: metadata, content_text, doc_node, and the call of
\* _split_into_blocks up to its loop
ParseBegin ==
    /\ ppc = "start"
    /\ \E o \in ExtractMetadata(markdown_text, yaml_installed) :
          /\ ~o.raised
          /\ metadata' = o.value
          /\ doc_node' = ASTNode("document", ListV(<<>>),
                                 IF Truthy(o.value) THEN [metadata |-> o.value]
                                 ELSE EmptyDict,
                                 NoneV)
          /\ SegEnter(ContentText(markdown_text, o.value))
    /\ ppc' = "split"
    /\ UNCHANGED <<markdown_text, yaml_installed, bi, reloaded>>
    /\ UNCHANGED notParse

\* line 153: yaml.safe_load raises; only ImportError is caught, so the
\* exception leaves parse
ParseMetadataRaises ==
    /\ ppc = "start"
    /\ \E o \in ExtractMetadata(markdown_text, yaml_installed) : o.raised
    /\ ppc' = "raised"
    /\ UNCHANGED <<markdown_text, yaml_installed, metadata, doc_node, bi, reloaded>>
    /\ UNCHANGED <<segVars, notParse>>

\* ParseBlockIter that appends a node only when its content is truthy
ParseBlockIterTruthyContent ==
    /\ ppc = "split" /\ spc = "returned"
    /\ bi <= Len(blocks)
    /\ LET parsed_block == ParseBlock(blocks[bi])
       IN  doc_node' =
               IF parsed_block = NoneV \/ ~Truthy(parsed_block.content) THEN doc_node
               ELSE [doc_node EXCEPT
                        !.content = ListV(Append(doc_node.content.val, parsed_block))]
    /\ bi' = bi + 1
    /\ UNCHANGED <<ppc, markdown_text, yaml_installed, metadata, reloaded>>
    /\ UNCHANGED <<segVars, notParse>>

\* lines 136-142: one iteration of the for loop over blocks
ParseBlockIter ==
    /\ ppc = "split" /\ spc = "returned"
    /\ bi <= Len(blocks)
    /\ LET parsed_block == ParseBlock(blocks[bi])
       IN  doc_node' =
               IF parsed_block = NoneV THEN doc_node
               ELSE [doc_node EXCEPT
                        !.content = ListV(Append(doc_node.content.val, parsed_block))]
    /\ bi' = bi + 1
    /\ UNCHANGED <<ppc, markdown_text, yaml_installed, metadata, reloaded>>
    /\ UNCHANGED <<segVars, notParse>>

\* line 144
ParseReturn ==
    /\ ppc = "split" /\ spc = "returned"
    /\ bi > Len(blocks)
    /\ ppc' = "done"
    /\ UNCHANGED <<markdown_text, yaml_installed, metadata, doc_node, bi, reloaded>>
    /\ UNCHANGED <<segVars, notParse>>

\* the texts parse is called on: an optional front-matter block, then up to
\* MaxParseLines lines
FrontMatters ==
    { <<>>,
      << <<"-", "-", "-">>, <<"k", ":", " ", "v">>, <<"-", "-", "-">> >>,
      << <<"-", "-", "-">>, <<"k", ":", " ", "[">>, <<"-", "-", "-">> >>,
      << <<"-", "-", "-">>, <<"w">>, <<"-", "-", "-">> >> }

ParseLines ==
    { <<>>, <<"a">>, <<"#", " ", "T">>, <<"-", " ", "a">>, <<"1", ".", " ", "b">>,
      <<"|", "c", "|">>, <<">", " ", "q">>, <<"-", "-", "-">>, <<"-", " ", "-">>,
      MathMark, <<"#", " ", "$", "$">>, Fence,
      <<"!", "[", "i", "]", "(", "u", ")", "[", "*", "a", "*", "]", "(", "c", ")",
        BT, "c", BT, "$", "m", "$", "*", "*", "s", "*", "*">>,
      TexBegin \o <<"p", "r", "o", "o", "f", "}", "x">> \o TexEnd
          \o <<"p", "r", "o", "o", "f", "}">> }

ParseTexts ==
    {Join(fm \o ls, NL) : fm \in FrontMatters, ls \in LineSeqs(ParseLines, MaxParseLines)}
    \cup {Join(<< <<"-", "-", "-">>, <<"k", ":", " ", "v">>, <<"-", "-", "-">>, <<"a">>,
                  <<"-", "-", "-">>, <<"b">>, <<"-", "-", "-">>, <<"c">> >>, NL),
           Join(<< <<"#">>, <<"a">> >>, NL)}

InitParse ==
    /\ InlineIdle
    /\ SegIdle
    /\ SerIdle
    /\ ValIdle
    /\ ppc = "start"
    /\ markdown_text \in ParseTexts
    /\ yaml_installed \in BOOLEAN
    /\ metadata = NoneV
    /\ doc_node = NoneV
    /\ bi = 1
    /\ reloaded = NoneV

(***************************************************************************)
(* ast_to_dict / dict_to_ast: a dict is a function on the keys it holds    *)
(***************************************************************************)
NodeV(n) == [tag |-> "node", val |-> n]

\* dict.get(k, default)
Get(d, k, default) == IF k \in DOMAIN d THEN d[k] ELSE default

\* _node_to_dict that tests "if node.content:" in place of "is not None"
RECURSIVE NodeToDictTruthy(_)
NodeToDictTruthy(node) ==
    [type |-> node.type, attributes |-> node.attributes]
    @@ (IF node.content.tag = "str" /\ node.content.val # <<>>
        THEN [content |-> node.content]
        ELSE IF node.content.tag = "list" /\ node.content.val # <<>>
        THEN [content |->
                  ListV([i \in 1..Len(node.content.val) |->
                            NodeToDictTruthy(node.content.val[i])])]
        ELSE EmptyDict)
    @@ (IF DOMAIN node.position # {} THEN [position |-> node.position]
        ELSE EmptyDict)

\* lines 449-466
RECURSIVE NodeToDict(_)
NodeToDict(node) ==
    [type |-> node.type, attributes |-> node.attributes]
    @@ (IF node.content.tag = "str" THEN [content |-> node.content]
        ELSE IF node.content.tag = "list"
        THEN [content |->
                  ListV([i \in 1..Len(node.content.val) |->
                            NodeToDict(node.content.val[i])])]
        ELSE IF node.content.tag = "node"
        THEN [content |-> DictV(NodeToDict(node.content.val))]
        ELSE EmptyDict)
    @@ (IF DOMAIN node.position # {} THEN [position |-> node.position]
        ELSE EmptyDict)

\* lines 445-447
AstToDict(ast) == NodeToDict(ast)

\* lines 468-486
RECURSIVE DictToAst(_)
DictToAst(data) ==
    LET content == Get(data, "content", NoneV)
    IN  ASTNode(data.type,
                IF content.tag = "list"
                THEN ListV([i \in 1..Len(content.val) |-> DictToAst(content.val[i])])
                ELSE IF content.tag = "dict" THEN NodeV(DictToAst(content.val))
                ELSE content,
                Get(data, "attributes", EmptyDict),
                Get(data, "position", EmptyDict))

\* ast_to_dict then dict_to_ast on the tree parse returned (save_ast, load_ast)
ParseReload ==
    /\ ppc = "done"
    /\ reloaded' = DictToAst(AstToDict(doc_node))
    /\ ppc' = "reloaded"
    /\ UNCHANGED <<markdown_text, yaml_installed, metadata, doc_node, bi>>
    /\ UNCHANGED <<segVars, notParse>>

NextParse ==
    ParseBegin \/ ParseMetadataRaises \/ SegStep \/ ParseBlockIter \/ ParseReturn
    \/ ParseReload

SpecParse == InitParse /\ [][NextParse]_vars

\* the types of the nodes of a sequence of nodes, children included
RECURSIVE TypesIn(_)
TypesIn(ns) ==
    UNION {{ns[i].type}
           \cup (IF ns[i].content.tag = "list" THEN TypesIn(ns[i].content.val) ELSE {})
           : i \in 1..Len(ns)}

\* the fence line that opens a fence never closed, 0 when every fence is closed
UnterminatedFence(ls) ==
    LET fs == {i \in 1..Len(ls) : IsFenceLine(ls[i])}
    IN  IF Cardinality(fs) % 2 = 1 THEN CHOOSE i \in fs : \A j \in fs : j <= i ELSE 0

\* C4: when the content ends inside a fence that was opened and never closed,
\* the document ends with the code_block of that fence, there is one
\* code_block per fence, and its content is every line after the opening
\* fence line up to the end of input.
C4_UnterminatedFenceKeepsAllLines ==
    (ppc = "done" /\ UnterminatedFence(lines) # 0) =>
        LET f == UnterminatedFence(lines)
            kids == doc_node.content.val
        IN  /\ kids # <<>>
            /\ kids[Len(kids)].type = "code_block"
            /\ Len(SelectSeq(kids, LAMBDA n : n.type = "code_block"))
                   = (Cardinality({i \in 1..Len(lines) : IsFenceLine(lines[i])}) + 1) \div 2
            /\ RStrip(kids[Len(kids)].content.val)
                   = RStrip(Join(SubStr(lines, f + 1, Len(lines)), NL))

\* the first test of _parse_block's documented order that the block passes
FirstTest(block) ==
    blockTests[CHOOSE i \in 1..Len(blockTests) :
                   /\ BlockTest(blockTests[i], block)
                   /\ \A j \in 1..(i - 1) : ~BlockTest(blockTests[j], block)]

\* the node the branch of the named test builds
NodeOfTest(name, block) ==
    CASE name = "math" -> ParseMathBlock(block)
      [] name = "code" -> ParseCodeBlock(block)
      [] name = "tex" -> ParseTexBlock(block, tex_patterns[TexType(block)].name)
      [] name = "heading" -> ParseHeading(block)
      [] name = "list" -> ParseList(block)
      [] name = "table" -> ParseTable(block)
      [] name = "quote" -> ParseQuote(block)
      [] name = "thematic" -> ASTNode("thematic_break", NoneV, NoneV, NoneV)
      [] name = "paragraph" -> ParseParagraph(block)

\* C6: every segment processed so far yielded exactly one node, and it is the
\* node of the first test, in the order math-block, fenced-code-block, TeX
\* environment, heading, list, table, blockquote, thematic-break, paragraph,
\* that the segment satisfies.
C6_FirstMatchWins ==
    (ppc \in {"split", "done"} /\ spc = "returned") =>
        /\ Len(doc_node.content.val) = bi - 1
        /\ \A i \in 1..(bi - 1) :
              doc_node.content.val[i] = NodeOfTest(FirstTest(blocks[i]), blocks[i])

\* C6 witness: a parsed document with a segment that passes the list test and
\* the thematic-break test and became a list, and one that passes the math
\* test and the heading test and became a math_block.
C6_Witness ==
    /\ ppc = "done"
    /\ \E i \in 1..Len(blocks) :
          /\ BlockTest("list", blocks[i]) /\ BlockTest("thematic", blocks[i])
          /\ doc_node.content.val[i].type = "list"
    /\ \E i \in 1..Len(blocks) :
          /\ BlockTest("math", blocks[i]) /\ BlockTest("heading", blocks[i])
          /\ doc_node.content.val[i].type = "math_block"

\* whether body is made of "key: value" lines, the form a mapping has
IsMappingBody(body) ==
    LET ls == SelectSeq(Split(body, NL), LAMBDA l : Strip(l) # <<>>)
    IN  ls # <<>> /\ \A i \in 1..Len(ls) : IsKeyValueLine(ls[i])

\* C7: when the text begins with a front-matter block whose body is not a
\* mapping, parse does not raise, the document is built from the content
\* after that block, and its metadata is the empty mapping.
C7_FrontMatterFailureRecovers ==
    LET mls == Split(markdown_text, NL)
        m == MetaMatchAt(mls, 1)
    IN  (ppc # "start" /\ m.found /\ ~IsMappingBody(m.body)) =>
            /\ ppc # "raised"
            /\ ppc \in {"done", "reloaded"} =>
                  /\ doc_node.attributes = EmptyDict
                  /\ StrippedNonBlank(lines)
                         = StrippedNonBlank(SubStr(mls, m.next, Len(mls)))

\* C9: the tree rebuilt from the record of the tree parse returned equals
\* that tree, at every node, in kind, content, attributes and position.
C9_RecordRoundTrip == ppc = "reloaded" => reloaded = doc_node

\* C9 witness: a reloaded document with front-matter metadata that holds an
\* image, which has no content, and a link with an emphasis in its label.
C9_Witness ==
    /\ ppc = "reloaded"
    /\ DOMAIN doc_node.attributes # {}
    /\ {"paragraph", "image", "emphasis", "link", "inline_code", "text"}
           \subseteq TypesIn(doc_node.content.val)

(***************************************************************************)
(* tei_generator.py: generate_tei_document.  An Element is                 *)
(* [tag, attrib, text, children]; a str literal of the source is Lit.      *)
(***************************************************************************)
Lit(s) == [tag |-> "lit", val |-> s]

RaiseV(kind) == [tag |-> "raise", val |-> kind]

\* Element(tag, attrib) with text and children
Element(tag, attrib, txt, children) ==
    [tag |-> tag, attrib |-> attrib, text |-> txt, children |-> children]

\* line 431: clean_id[:50]
IdLimit == 50

\* uuid.uuid4().hex[:8]: values two calls can return
Hex8 ==
    { <<"0", "0", "0", "0", "0", "0", "0", "0">>,
      <<"0", "0", "0", "0", "0", "0", "0", "1">> }

\* lines 426-432, hex being what uuid4 returns when it is called
CreatePageId(url, hex) ==
    LET clean1 == [i \in 1..Len(url) |->
                      IF url[i] \in Letters \cup Digits \cup {"_", "-"}
                      THEN url[i] ELSE "_"]
        clean2 == IF clean1 # <<>> /\ clean1[1] \notin Letters \cup {"_"}
                  THEN <<"_">> \o Tail(clean1) ELSE clean1
        clean3 == SubStr(clean2, 1, IF Len(clean2) < IdLimit THEN Len(clean2) ELSE IdLimit)
    IN  IF clean3 # <<>> THEN clean3 ELSE <<"p", "a", "g", "e", "_">> \o hex

\* the node kinds _convert_ast_to_tei has a branch for
MappedKinds ==
    {"document", "heading", "paragraph", "link", "image", "code_block",
     "inline_code", "math_block", "inline_math", "list", "list_item", "quote",
     "strong", "emphasis", "text"}

\* lines 236-424: every branch starts with SubElement(None, ...), and
\* SubElement raises TypeError when its parent is not an Element; a kind
\* without a branch returns None
ConvertAstToTei(ast_node) ==
    IF ast_node.type \in MappedKinds THEN RaiseV("TypeError") ELSE NoneV

\* lines 34-108: the TEI element generate_tei_header returns
TeiHeader(site_metadata, when, date) ==
    LET language == Get(site_metadata, "language", Lit("en"))
        title == Element("title", [lang |-> language, type |-> Lit("main")],
                         Get(site_metadata, "title",
                             Get(site_metadata, "base_url", Lit("Untitled Site"))),
                         <<>>)
        author == Element("author", EmptyDict, NoneV,
                          <<Element("name", EmptyDict,
                                    Get(site_metadata, "author", Lit("Web Scraper")),
                                    <<>>)>>)
        publication == Element("publicationStmt", EmptyDict, NoneV,
                          <<Element("publisher", EmptyDict,
                                    Lit("Integral Philosophy Publishing System"), <<>>),
                            Element("date", [when |-> when, type |-> Lit("creation")],
                                    date, <<>>)>>)
        bibl == Element("bibl", EmptyDict, NoneV,
                    <<Element("title", EmptyDict,
                              Get(site_metadata, "base_url", Lit("Unknown Source")),
                              <<>>)>>
                    \o (IF "scraped_at" \in DOMAIN site_metadata
                        THEN <<Element("note", [type |-> Lit("scraper")],
                                       [tag |-> "scraped_on",
                                        val |-> site_metadata["scraped_at"]], <<>>)>>
                        ELSE <<>>))
        titleStmt == Element("titleStmt", EmptyDict, NoneV,
                         <<title, author, publication,
                           Element("sourceDesc", EmptyDict, NoneV, <<bibl>>)>>)
        encoding == Element("encodingDesc", EmptyDict, NoneV,
                        <<Element("projectDesc", EmptyDict,
                                  Lit("This document was automatically generated"),
                                  <<>>)>>)
        profile == Element("profileDesc", EmptyDict, NoneV,
                       <<Element("langUsage", EmptyDict, NoneV,
                                 <<Element("language", [ident |-> language],
                                           Get(site_metadata, "language", Lit("English")),
                                           <<>>)>>),
                         encoding>>)
    IN  Element("TEI", [lang |-> language], NoneV,
                <<Element("teiHeader", EmptyDict, NoneV,
                          <<Element("fileDesc", EmptyDict, NoneV, <<titleStmt>>),
                            profile>>)>>)

\* lines 122-135: the table-of-contents entry of one page
TocEntry(url, page_info, hex) ==
    Element("div", [type |-> Lit("toc-entry")], NoneV,
            <<Element("ref", [target |-> StrV(<<"#">> \o CreatePageId(url, hex))],
                      Get(Get(page_info, "metadata", EmptyDict), "title", StrV(url)),
                      <<>>)>>)

\* lines 112-144: the text element, given the entries and the page divs
TextBody(toc, divs) ==
    Element("text", EmptyDict, NoneV,
            <<Element("front", EmptyDict, NoneV,
                      <<Element("div", [type |-> Lit("contents")], NoneV,
                                <<Element("head", EmptyDict, Lit("Table of Contents"),
                                          <<>>)>> \o toc)>>),
              Element("body", EmptyDict, NoneV, divs)>>)

\* lines 148-159: the div of a page that has neither metadata, content nor links
PageDiv(url, page_info, hex) ==
    Element("div", [type |-> Lit("page"), id |-> StrV(CreatePageId(url, hex))], NoneV,
            <<Element("head", EmptyDict,
                      Get(Get(page_info, "metadata", EmptyDict), "title", StrV(url)),
                      <<>>)>>)

\* lines 441-492: tei_root with the text body, the revision history and the
\* stand-off link list (site_ast has no link graph), pretty-printed with the
\* XML declaration and the DOCTYPE
TeiDocument(site_metadata, t, change_when) ==
    LET header == TeiHeader(site_metadata, t.when, t.date)
        teiHeader == header.children[1]
        revision == Element("revisionDesc", EmptyDict, NoneV,
                        <<Element("change",
                                  [when |-> change_when, who |-> Lit("#web_scraper")],
                                  Lit("Initial TEI XML generation from scraped web content"),
                                  <<>>)>>)
        standoff == Element("standOff", EmptyDict, NoneV,
                        <<Element("listBibl", [type |-> Lit("links")], NoneV, <<>>)>>)
    IN  [tag |-> "xml",
         declaration |-> "<?xml version=\"1.0\" encoding=\"UTF-8\"?>",
         doctype |-> "TEI",
         root |-> [header EXCEPT
                      !.children =
                          <<[teiHeader EXCEPT
                                !.children = Append(teiHeader.children, revision)],
                            TextBody(t.toc, t.divs), standoff>>]]

pages == site_ast.pages

\* lines 34-76: generate_tei_header up to the first datetime.now()
GenerateTeiHeader ==
    /\ gpc = "start"
    /\ tei' = [NoTei EXCEPT !.when = IntV(now.day)]
    /\ gpc' = "header"
    /\ UNCHANGED <<site_ast, now, page_idx, outputs>>
    /\ UNCHANGED <<segVars, parseVars, notSer>>

\* lines 78-108: the second datetime.now() and the rest of the header
GenerateTeiHeaderDate ==
    /\ gpc = "header"
    /\ tei' = [tei EXCEPT !.date = IntV(now.day)]
    /\ gpc' = "toc"
    /\ UNCHANGED <<site_ast, now, page_idx, outputs>>
    /\ UNCHANGED <<segVars, parseVars, notSer>>

\* lines 112-135: generate_text_body up to the end of the table of contents
GenerateToc ==
    /\ gpc = "toc"
    /\ \E hex \in [1..Len(pages) -> Hex8] :
          tei' = [tei EXCEPT
                     !.toc = [i \in 1..Len(pages) |->
                                 TocEntry(pages[i].url, pages[i].info, hex[i])]]
    /\ page_idx' = 1
    /\ gpc' = "pages"
    /\ UNCHANGED <<site_ast, now, outputs>>
    /\ UNCHANGED <<segVars, parseVars, notSer>>

\* lines 140-142 and 146-234 for a page without content
ConvertPage ==
    /\ gpc = "pages" /\ page_idx <= Len(pages)
    /\ "content" \notin DOMAIN pages[page_idx].info
    /\ \E hex \in Hex8 :
          tei' = [tei EXCEPT
                     !.divs = Append(@, PageDiv(pages[page_idx].url,
                                                pages[page_idx].info, hex))]
    /\ page_idx' = page_idx + 1
    /\ UNCHANGED <<gpc, site_ast, now, outputs>>
    /\ UNCHANGED <<segVars, parseVars, notSer>>

\* lines 146-207 for a page whose content is a str: parser.parse is called
ConvertPageParse ==
    /\ gpc = "pages" /\ page_idx <= Len(pages)
    /\ "content" \in DOMAIN pages[page_idx].info
    /\ pages[page_idx].info["content"].tag = "str"
    /\ gpc' = "parsing"
    /\ ppc' = "start"
    /\ markdown_text' = pages[page_idx].info["content"].val
    /\ bi' = 1
    /\ UNCHANGED <<yaml_installed, metadata, doc_node, reloaded>>
    /\ UNCHANGED <<site_ast, now, tei, page_idx, outputs>>
    /\ UNCHANGED <<segVars, notSer>>

\* line 208, then 210: _convert_ast_to_tei on the Document parse returned
\* raises, and when it returns None page_div.append(None) raises
ConvertPageContent ==
    /\ gpc = "parsing" /\ ppc = "done"
    /\ ConvertAstToTei(doc_node).tag \in {"raise", "none"}
    /\ gpc' = "raised"
    /\ outputs' = Append(outputs, RaiseV("TypeError"))
    /\ UNCHANGED <<site_ast, now, tei, page_idx>>
    /\ UNCHANGED <<segVars, parseVars, notSer>>

\* lines 209-213 for a page whose content is not a str: _convert_ast_to_tei
\* on the dictionary raises, and when it returns None page_div.append(None)
\* raises
ConvertPageDict ==
    /\ gpc = "pages" /\ page_idx <= Len(pages)
    /\ "content" \in DOMAIN pages[page_idx].info
    /\ pages[page_idx].info["content"].tag = "dict"
    /\ ConvertAstToTei(pages[page_idx].info["content"].val).tag \in {"raise", "none"}
    /\ gpc' = "raised"
    /\ outputs' = Append(outputs, RaiseV("TypeError"))
    /\ UNCHANGED <<site_ast, now, tei, page_idx>>
    /\ UNCHANGED <<segVars, parseVars, notSer>>

\* line 207: parse raises
ConvertPageParseRaises ==
    /\ gpc = "parsing" /\ ppc = "raised"
    /\ gpc' = "raised"
    /\ outputs' = Append(outputs, RaiseV("YAMLError"))
    /\ UNCHANGED <<site_ast, now, tei, page_idx>>
    /\ UNCHANGED <<segVars, parseVars, notSer>>

\* lines 441-492: the revision stamp with the third datetime.now(), the
\* stand-off markup and the pretty print
GenerateRevision ==
    /\ gpc = "pages" /\ page_idx > Len(pages)
    /\ outputs' = Append(outputs,
                         TeiDocument(Get(site_ast, "metadata", EmptyDict), tei,
                                     [tag |-> "datetime", val |-> now]))
    /\ gpc' = "done"
    /\ UNCHANGED <<site_ast, now, tei, page_idx>>
    /\ UNCHANGED <<segVars, parseVars, notSer>>

\* the caller runs generate_tei_document on the same site_ast once more
SerializeAgain ==
    /\ gpc \in {"done", "raised"}
    /\ Len(outputs) < MaxRuns
    /\ gpc' = "start"
    /\ tei' = NoTei
    /\ page_idx' = 1
    /\ ppc' = "idle"
    /\ UNCHANGED <<markdown_text, yaml_installed, metadata, doc_node, bi, reloaded>>
    /\ UNCHANGED <<site_ast, now, outputs>>
    /\ UNCHANGED <<segVars, notSer>>

\* the clock moves on, within the day or to the next day; parse does not read it
Tick ==
    /\ gpc # "parsing"
    /\ now.day + now.us < MaxTicks
    /\ \/ now' = [now EXCEPT !.us = @ + 1]
       \/ now' = [day |-> now.day + 1, us |-> 0]
    /\ UNCHANGED <<gpc, site_ast, tei, page_idx, outputs>>
    /\ UNCHANGED <<segVars, parseVars, notSer>>

\* the page contents the serializer is run on
SerTexts ==
    { <<"a">>,
      Join(<<Fence, <<"b">>, Fence, MathMark, <<"x">>, MathMark>>, NL),
      Join(<< <<"-", "-", "-">>, <<"k", ":", " ", "[">>, <<"-", "-", "-">>, <<"a">> >>, NL),
      <<"#", " ", "T">>,
      <<"#", "#", " ", "T">>,
      Join(<< <<"a">>, <<>>, <<"-", "-", "-">>, <<>>, <<"b">> >>, NL) }

\* page contents that are already a parsed tree, in dictionary form
SerDicts ==
    { [type |-> "thematic_break", content |-> NoneV, attributes |-> EmptyDict] }

\* site_ast["pages"]: no page, one page without content (its url may clean to
\* the empty id), one page with str content, one page with dict content
SerPages ==
    { <<>> }
    \cup { <<[url |-> u, info |-> EmptyDict]>> : u \in {<<"u">>, <<>>, <<"1", "/">>} }
    \cup { <<[url |-> <<"u">>, info |-> [content |-> StrV(t)]]>> : t \in SerTexts }
    \cup { <<[url |-> <<"u">>, info |-> [content |-> DictV(d)]]>> : d \in SerDicts }

SerSites ==
    { [pages |-> ps] : ps \in SerPages }
    \cup { [metadata |-> [title |-> StrV(<<"t">>)], pages |-> ps] : ps \in SerPages }

InitSer ==
    /\ InlineIdle
    /\ SegIdle
    /\ ValIdle
    /\ ppc = "idle"
    /\ markdown_text = <<>>
    /\ yaml_installed \in BOOLEAN
    /\ metadata = NoneV
    /\ doc_node = NoneV
    /\ bi = 1
    /\ reloaded = NoneV
    /\ gpc = "start"
    /\ site_ast \in SerSites
    /\ now = [day |-> 0, us |-> 0]
    /\ tei = NoTei
    /\ page_idx = 1
    /\ outputs = <<>>

NextSer ==
    \/ GenerateTeiHeader \/ GenerateTeiHeaderDate \/ GenerateToc
    \/ ConvertPage \/ ConvertPageParse
    \/ ParseBegin \/ ParseMetadataRaises \/ SegStep \/ ParseBlockIter \/ ParseReturn
    \/ ConvertPageContent \/ ConvertPageDict \/ ConvertPageParseRaises
    \/ GenerateRevision \/ SerializeAgain \/ Tick

SpecSer == InitSer /\ [][NextSer]_vars

\* C8: two calls of generate_tei_document in sequence on the same site_ast,
\* its pages parsed from their text, both return a document, and the two
\* documents are identical.
C8_SerializationDeterministic ==
    Len(outputs) >= 2 =>
        /\ outputs[1].tag = "xml"
        /\ outputs[2] = outputs[1]

(***************************************************************************)
(* html_tei_converter.py: test_isomorphism.  tidy, saxon, xmllint and diff *)
(* are external programs: a call returns 0, returns non-zero, or the       *)
(* program is missing and subprocess.run raises FileNotFoundError.         *)
(***************************************************************************)
ToolOutcomes == {"ok", "nonzero", "missing"}

\* the reference targets of the files, in the order sorted() puts them
Targets == <<"/a", "/b">>

Rank(t) == CHOOSE i \in 1..Len(Targets) : Targets[i] = t

\* sorted(links)
RECURSIVE Sorted(_)
Sorted(l) ==
    IF l = <<>> THEN <<>>
    ELSE LET m == CHOOSE i \in 1..Len(l) :
                      \A j \in 1..Len(l) :
                          Rank(l[i]) < Rank(l[j]) \/ (Rank(l[i]) = Rank(l[j]) /\ i <= j)
         IN  <<l[m]>> \o Sorted(SubStr(l, 1, m - 1) \o SubStr(l, m + 1, Len(l)))

\* lines 626-632
CalculateChecksum(file) == <<"sha256", file.bytes>>

\* lines 733-742: tidy's stdout keeps the structure of the file
CleanHtmlWithTidy(file, o) == IF o = "ok" THEN file ELSE Blank

\* whether xmllint returns 0: not on a file that is no XML document, and not
\* for a node-set query that selects nothing
XmllintOk(file, o) == o = "ok" /\ file # Blank

\* lines 744-758
XpathCount(file, o) == IF XmllintOk(file, o) THEN file.sections ELSE 0

\* lines 760-775
XpathText(file, o) == IF XmllintOk(file, o) THEN file.headings ELSE <<>>

\* lines 777-793
XpathLinks(file, o) == IF XmllintOk(file, o) THEN Sorted(file.links) ELSE <<>>

\* _is_isomorphic that also wants the two checksums equal
IsIsomorphicWithChecksums(c) ==
    IF "error" \in DOMAIN c THEN FALSE
    ELSE /\ Get(Get(c, "structure", EmptyDict), "sections_match", FALSE)
         /\ Get(Get(c, "headings", EmptyDict), "match", FALSE)
         /\ Get(Get(c, "links", EmptyDict), "match", FALSE)
         /\ Get(Get(c, "checksums", EmptyDict), "original", 0)
                = Get(Get(c, "checksums", EmptyDict), "final", 1)

\* lines 795-806
IsIsomorphic(c) ==
    IF "error" \in DOMAIN c THEN FALSE
    ELSE /\ Get(Get(c, "structure", EmptyDict), "sections_match", FALSE)
         /\ Get(Get(c, "headings", EmptyDict), "match", FALSE)
         /\ Get(Get(c, "links", EmptyDict), "match", FALSE)

\* lines 808-820: diff -u returns 0 exactly when the files have the same bytes
GenerateHtmlDiff(original, final, o) ==
    IF o = "missing" THEN "Diff generation failed"
    ELSE IF original.bytes = final.bytes THEN "No differences found"
    ELSE "diff -u"

\* line 686
NewComparison ==
    [structure |-> EmptyDict, headings |-> EmptyDict, links |-> EmptyDict,
     checksums |-> EmptyDict]

\* lines 583-588
NewResults ==
    [original_file |-> "original_html", steps |-> EmptyDict,
     comparisons |-> EmptyDict, isomorphic |-> FALSE]

\* the files the converters and the comparison are run on
Forms ==
    { Form(1, <<"h">>, <<"/a", "/b">>, "x"),
      Form(1, <<"h">>, <<"/a", "/b">>, "y"),
      Form(1, <<"h">>, <<"/b", "/a">>, "y"),
      Form(1, <<>>, <<"/a", "/b">>, "y"),
      Form(0, <<"h">>, <<"/a", "/b">>, "y"),
      Form(1, <<"h">>, <<"/a">>, "y"),
      Form(1, <<"h">>, <<"/a", "/a">>, "y") }

\* a file that kept everything and a file that lost its heading
BatchForms ==
    { Form(1, <<"h">>, <<"/a", "/b">>, "x"),
      Form(1, <<>>, <<"/a", "/b">>, "y") }

valLocals ==
    <<comparison, orig_clean, final_clean, orig_sections, final_sections,
      orig_headings, final_headings, orig_links, final_links>>

\* the two files of the build directory that every comparison writes
buildFiles == <<orig_file, final_file>>

batchVars == <<html_files, file_idx, batch>>

\* whether one of the external tool calls whose outcomes are outs, made in
\* this order until one stops the callers, exited non-zero or was missing: the
\* first outcome that is not "ok" is of a call that was made
AnyFailed(outs) == \E i \in 1..Len(outs) : outs[i] # "ok"

Call(op, outcome) == [op |-> op, outcome |-> outcome]

\* lines 590-597 with html_to_tei (lines 474-527): tidy, then saxon, then the
\* xmllint of _count_tei_elements (lines 634-649).  Line 476 reads time.time()
\* outside the try: without the name "time" the NameError reaches the except
\* of test_isomorphism (lines 621-624).
HtmlToTei ==
    /\ vpc = "start"
    /\ IF ~time_imported
       THEN /\ results' = NewResults @@ [error |-> "NameError"]
            /\ calls' = calls \o <<Call("html_to_tei", "raised")>>
            /\ tool_failed' = tool_failed
            /\ vpc' = "done"
       ELSE \E tidy \in ToolOutcomes, saxon \in ToolOutcomes,
               xmllint \in ToolOutcomes :
               /\ tool_failed' = (tool_failed \/ AnyFailed(<<tidy, saxon, xmllint>>))
               /\ IF tidy = "ok" /\ saxon = "ok"
                  THEN /\ results' = [NewResults EXCEPT
                                         !.steps = [html_to_tei |-> "Success"]]
                       /\ calls' = calls \o <<Call("html_to_tei", "success")>>
                       /\ vpc' = "step2"
                  ELSE /\ results' = [NewResults EXCEPT
                                         !.steps = [html_to_tei |-> "Failed"]]
                       /\ calls' = calls \o <<Call("html_to_tei", "failed")>>
                       /\ vpc' = "done"
    /\ UNCHANGED <<time_imported, original_html, final_html, valLocals,
                   buildFiles, other_pc, batchVars>>
    /\ UNCHANGED notVal

\* the contents saxon may give the derived file (line 541); inside a batch
\* the choice is kept to two of them
Derived == IF html_files = <<>> THEN Forms ELSE BatchForms

\* lines 599-606 with tei_to_html (lines 535-575): what saxon writes is its
\* own; then the xmllint calls of _count_html_elements (lines 651-682)
TeiToHtml ==
    /\ vpc = "step2"
    /\ \E saxon \in ToolOutcomes, xmllint \in ToolOutcomes :
          /\ tool_failed' = (tool_failed \/ AnyFailed(<<saxon, xmllint>>))
          /\ IF saxon = "ok"
             THEN /\ results' = [results EXCEPT
                                    !.steps = @ @@ [tei_to_html |-> "Success"]]
                  /\ calls' = calls \o <<Call("tei_to_html", "success")>>
                  /\ final_html' \in Derived
                  /\ vpc' = "clean"
             ELSE /\ results' = [results EXCEPT
                                    !.steps = @ @@ [tei_to_html |-> "Failed"]]
                  /\ calls' = calls \o <<Call("tei_to_html", "failed")>>
                  /\ final_html' = final_html
                  /\ vpc' = "done"
    /\ UNCHANGED <<time_imported, original_html, valLocals, buildFiles,
                   other_pc, batchVars>>
    /\ UNCHANGED notVal

\* lines 482-487 and 500-509: subprocess.run is given no timeout, so when tidy
\* or saxon never exits the call never returns and html_to_tei stays in it
HtmlToTeiHangs ==
    /\ vpc = "start"
    /\ time_imported
    /\ results' = NewResults
    /\ vpc' = "blocked"
    /\ UNCHANGED <<time_imported, original_html, final_html, valLocals,
                   buildFiles, calls, tool_failed, other_pc, batchVars>>
    /\ UNCHANGED notVal

\* lines 543-552: the same for the saxon call of tei_to_html
TeiToHtmlHangs ==
    /\ vpc = "step2"
    /\ vpc' = "blocked"
    /\ UNCHANGED <<time_imported, original_html, final_html, results, valLocals,
                   buildFiles, calls, tool_failed, other_pc, batchVars>>
    /\ UNCHANGED notVal

\* an exception inside the try of _compare_html_files: lines 726-728
CompareError ==
    /\ comparison' = comparison @@ [error |-> "FileNotFoundError"]
    /\ vpc' = "verdict"

\* lines 686-700: both files cleaned with tidy and written to the two files of
\* the build directory
CompareClean ==
    /\ vpc = "clean"
    /\ calls' = calls \o <<Call("_compare_html_files", "entered")>>
    /\ \E o1 \in ToolOutcomes, o2 \in ToolOutcomes :
          /\ tool_failed' = (tool_failed \/ AnyFailed(<<o1, o2>>))
          /\ IF o1 = "missing" \/ o2 = "missing"
             THEN /\ comparison' = NewComparison @@ [error |-> "FileNotFoundError"]
                  /\ vpc' = "verdict"
                  /\ UNCHANGED <<orig_clean, final_clean, buildFiles>>
             ELSE /\ comparison' = NewComparison
                  /\ orig_clean' = CleanHtmlWithTidy(original_html, o1)
                  /\ final_clean' = CleanHtmlWithTidy(final_html, o2)
                  /\ orig_file' = CleanHtmlWithTidy(original_html, o1)
                  /\ final_file' = CleanHtmlWithTidy(final_html, o2)
                  /\ vpc' = "structure"
    /\ UNCHANGED <<time_imported, original_html, final_html, results,
                   orig_sections, final_sections, orig_headings, final_headings,
                   orig_links, final_links, other_pc, batchVars>>
    /\ UNCHANGED notVal

\* lines 702-707
CompareStructure ==
    /\ vpc = "structure"
    /\ \E o1 \in ToolOutcomes, o2 \in ToolOutcomes :
          /\ tool_failed' = (tool_failed \/ AnyFailed(<<o1, o2>>))
          /\ IF o1 = "missing" \/ o2 = "missing"
             THEN CompareError /\ UNCHANGED <<orig_sections, final_sections>>
             ELSE /\ orig_sections' = XpathCount(orig_file, o1)
                  /\ final_sections' = XpathCount(final_file, o2)
                  /\ comparison' =
                         [comparison EXCEPT
                             !.structure =
                                 [sections_match |->
                                      XpathCount(orig_file, o1) = XpathCount(final_file, o2),
                                  original_sections |-> XpathCount(orig_file, o1),
                                  final_sections |-> XpathCount(final_file, o2)]]
                  /\ vpc' = "headings"
    /\ UNCHANGED <<time_imported, original_html, final_html, results, orig_clean,
                   final_clean, orig_headings, final_headings, orig_links,
                   final_links, buildFiles, calls, other_pc, batchVars>>
    /\ UNCHANGED notVal

\* lines 709-714
CompareHeadings ==
    /\ vpc = "headings"
    /\ \E o1 \in ToolOutcomes, o2 \in ToolOutcomes :
          /\ tool_failed' = (tool_failed \/ AnyFailed(<<o1, o2>>))
          /\ IF o1 = "missing" \/ o2 = "missing"
             THEN CompareError /\ UNCHANGED <<orig_headings, final_headings>>
             ELSE /\ orig_headings' = XpathText(orig_file, o1)
                  /\ final_headings' = XpathText(final_file, o2)
                  /\ comparison' =
                         [comparison EXCEPT
                             !.headings =
                                 [match |-> XpathText(orig_file, o1) = XpathText(final_file, o2),
                                  original |-> XpathText(orig_file, o1),
                                  final |-> XpathText(final_file, o2)]]
                  /\ vpc' = "links"
    /\ UNCHANGED <<time_imported, original_html, final_html, results, orig_clean,
                   final_clean, orig_sections, final_sections, orig_links,
                   final_links, buildFiles, calls, other_pc, batchVars>>
    /\ UNCHANGED notVal

\* lines 716-721
CompareLinks ==
    /\ vpc = "links"
    /\ \E o1 \in ToolOutcomes, o2 \in ToolOutcomes :
          /\ tool_failed' = (tool_failed \/ AnyFailed(<<o1, o2>>))
          /\ IF o1 = "missing" \/ o2 = "missing"
             THEN CompareError /\ UNCHANGED <<orig_links, final_links>>
             ELSE /\ orig_links' = XpathLinks(orig_file, o1)
                  /\ final_links' = XpathLinks(final_file, o2)
                  /\ comparison' =
                         [comparison EXCEPT
                             !.links =
                                 [match |-> XpathLinks(orig_file, o1) = XpathLinks(final_file, o2),
                                  original_count |-> Len(XpathLinks(orig_file, o1)),
                                  final_count |-> Len(XpathLinks(final_file, o2))]]
                  /\ vpc' = "checksums"
    /\ UNCHANGED <<time_imported, original_html, final_html, results, orig_clean,
                   final_clean, orig_sections, final_sections, orig_headings,
                   final_headings, buildFiles, calls, other_pc, batchVars>>
    /\ UNCHANGED notVal

\* lines 723-725 and 730
CompareChecksums ==
    /\ vpc = "checksums"
    /\ comparison' = [comparison EXCEPT
                         !.checksums =
                             [original |-> CalculateChecksum(original_html),
                              final |-> CalculateChecksum(final_html)]]
    /\ vpc' = "verdict"
    /\ UNCHANGED <<time_imported, original_html, final_html, results, orig_clean,
                   final_clean, orig_sections, final_sections, orig_headings,
                   final_headings, orig_links, final_links, buildFiles, calls,
                   tool_failed, other_pc, batchVars>>
    /\ UNCHANGED notVal

\* lines 609-619: the comparison is recorded, the verdict taken, and a diff
\* attached when the verdict is false
TestVerdict ==
    /\ vpc = "verdict"
    /\ \E o \in ToolOutcomes :
          results' =
              [results EXCEPT !.comparisons = comparison,
                              !.isomorphic = IsIsomorphic(comparison)]
              @@ (IF IsIsomorphic(comparison) THEN EmptyDict
                  ELSE [diff |-> GenerateHtmlDiff(original_html, final_html, o)])
    /\ vpc' = "done"
    /\ UNCHANGED <<time_imported, original_html, final_html, valLocals,
                   buildFiles, calls, tool_failed, other_pc, batchVars>>
    /\ UNCHANGED notVal

\* the state in which test_isomorphism is entered on a file of content f
CheckStart(f) ==
    /\ vpc = "start"
    /\ original_html = f
    /\ final_html = Blank
    /\ results = EmptyDict
    /\ CompareIdle
    /\ calls = <<>>
    /\ tool_failed = FALSE

InitVal ==
    /\ InlineIdle
    /\ SegIdle
    /\ ParseIdle
    /\ SerIdle
    /\ time_imported \in BOOLEAN
    /\ \E f \in Forms : CheckStart(f)
    /\ orig_file = Blank
    /\ final_file = Blank
    /\ other_pc = "idle"
    /\ BatchIdle

NextVal ==
    \/ HtmlToTei \/ TeiToHtml \/ HtmlToTeiHangs \/ TeiToHtmlHangs
    \/ CompareClean \/ CompareStructure \/ CompareHeadings \/ CompareLinks
    \/ CompareChecksums \/ TestVerdict

SpecVal == InitVal /\ [][NextVal]_vars

\* the interpreter keeps running the check as long as it has a step to take
SpecValFair == SpecVal /\ WF_vars(NextVal)

\* both steps recorded as Success and the comparison finished without error
ComparisonCompleted ==
    /\ vpc = "done"
    /\ "error" \notin DOMAIN results
    /\ DOMAIN results.steps = {"html_to_tei", "tei_to_html"}
    /\ \A k \in DOMAIN results.steps : results.steps[k] = "Success"
    /\ "error" \notin DOMAIN results.comparisons

\* C10: when both steps succeeded and the comparison completed, isomorphic is
\* (section counts equal) and (heading sequences equal) and (reference
\* targets equal), whatever the two recorded checksums are.
C10_VerdictIsConjunction ==
    ComparisonCompleted =>
        results.isomorphic =
            (/\ orig_sections = final_sections
             /\ orig_headings = final_headings
             /\ orig_links = final_links)

\* C10 witness: a completed check with isomorphic true whose two recorded
\* checksums differ.
C10_Witness ==
    /\ ComparisonCompleted
    /\ results.isomorphic
    /\ results.comparisons.checksums.original # results.comparisons.checksums.final
    /\ orig_links # <<>>

\* whether test_isomorphism has run the step or helper named op
Ran(op) == \E i \in 1..Len(calls) : calls[i].op = op

\* whether the step named op was run and did not succeed
StepFailed(op) ==
    \E i \in 1..Len(calls) : calls[i].op = op /\ calls[i].outcome # "success"

\* the report of a check that stopped at the step named op
StoppedAt(op) ==
    /\ vpc = "done"
    /\ ~Ran("_compare_html_files")
    /\ Get(results.steps, op, "") = "Failed"
    /\ results.comparisons = EmptyDict
    /\ results.isomorphic = FALSE

\* C11: when the HTML-to-TEI step fails, the TEI-to-HTML step and the
\* comparison are never run; when the TEI-to-HTML step fails, the comparison
\* is never run; in both cases the report records that step as Failed, has
\* empty comparisons and isomorphic false.
C11_ShortCircuitOnStepFailure ==
    /\ StepFailed("html_to_tei") => ~Ran("tei_to_html") /\ StoppedAt("html_to_tei")
    /\ StepFailed("tei_to_html") => StoppedAt("tei_to_html")

\* C12: a check in which a tidy, saxon or xmllint call exited non-zero or was
\* missing never reports isomorphic true.
C12_NoGarbageCountedAsSuccess ==
    tool_failed => ~Get(results, "isomorphic", FALSE)

\* the set of the elements of a list
SetOf(l) == {l[i] : i \in 1..Len(l)}

\* C13: the links match is true exactly when the set of the reference targets
\* extracted from the original form equals the set of those extracted from
\* the derived form.
C13_LinksMatchIsSetEquality ==
    (vpc = "done" /\ Get(results.comparisons, "links", EmptyDict) # EmptyDict) =>
        results.comparisons.links.match = (SetOf(orig_links) = SetOf(final_links))

\* both transformation steps are recorded as Success
BothStepsSucceeded ==
    /\ DOMAIN results.steps = {"html_to_tei", "tei_to_html"}
    /\ \A k \in DOMAIN results.steps : results.steps[k] = "Success"

\* C14: when both steps succeeded and the heading sequence of the derived form
\* differs from that of the original, the headings match is false, the verdict
\* is false and the report carries a diff; a report with isomorphic true never
\* carries a diff.
C14_MismatchReportedWithDiff ==
    vpc = "done" =>
        /\ (BothStepsSucceeded /\ final_html.headings # original_html.headings) =>
               /\ ~Get(Get(results.comparisons, "headings", EmptyDict), "match", FALSE)
               /\ ~results.isomorphic
               /\ "diff" \in DOMAIN results
        /\ results.isomorphic => "diff" \notin DOMAIN results

(***************************************************************************)
(* batch_test_isomorphism, one call, item by item                          *)
(***************************************************************************)
\* the longest list of files a batch is given
MaxFiles == 2

\* the files on disk and their contents
FileContent ==
    [a |-> Form(1, <<"h">>, <<"/a", "/b">>, "x"),
     b |-> Form(1, <<"h">>, <<"/a">>, "y")]

RECURSIVE FileLists(_)
FileLists(n) ==
    IF n = 0 THEN {<<>>}
    ELSE LET shorter == FileLists(n - 1)
         IN  shorter \cup {<<f>> \o l : f \in DOMAIN FileContent, l \in shorter}

\* lines 824-830
NewBatch(files) ==
    [total_files |-> Len(files), successful_conversions |-> 0,
     isomorphic_files |-> 0, file_results |-> EmptyDict, summary |-> EmptyDict]

\* line 834: test_isomorphism is entered on the next file
BatchCall ==
    /\ vpc = "batch"
    /\ file_idx <= Len(html_files)
    /\ vpc' = "start"
    /\ original_html' = FileContent[html_files[file_idx]]
    /\ final_html' = Blank
    /\ results' = EmptyDict
    /\ comparison' = EmptyDict
    /\ orig_clean' = Blank
    /\ final_clean' = Blank
    /\ orig_sections' = 0
    /\ final_sections' = 0
    /\ orig_headings' = <<>>
    /\ final_headings' = <<>>
    /\ orig_links' = <<>>
    /\ final_links' = <<>>
    /\ calls' = <<>>
    /\ tool_failed' = FALSE
    /\ UNCHANGED <<time_imported, buildFiles, other_pc, batchVars>>
    /\ UNCHANGED notVal

\* BatchRecord that counts a conversion under "elif", only when not isomorphic
BatchRecordElif ==
    /\ vpc = "done"
    /\ file_idx \in 1..Len(html_files)
    /\ batch' =
           [batch EXCEPT
               !.file_results = (html_files[file_idx] :> results) @@ @,
               !.isomorphic_files =
                   IF Get(results, "isomorphic", FALSE) THEN @ + 1 ELSE @,
               !.successful_conversions =
                   IF /\ ~Get(results, "isomorphic", FALSE)
                      /\ Get(Get(results, "steps", EmptyDict), "html_to_tei", "") = "Success"
                      /\ Get(Get(results, "steps", EmptyDict), "tei_to_html", "") = "Success"
                   THEN @ + 1 ELSE @]
    /\ file_idx' = file_idx + 1
    /\ vpc' = "batch"
    /\ UNCHANGED <<time_imported, original_html, final_html, results, valLocals,
                   buildFiles, calls, tool_failed, other_pc, html_files>>
    /\ UNCHANGED notVal

\* lines 835-844: the result is stored under str(html_file), the counters follow
BatchRecord ==
    /\ vpc = "done"
    /\ file_idx \in 1..Len(html_files)
    /\ batch' =
           [batch EXCEPT
               !.file_results = (html_files[file_idx] :> results) @@ @,
               !.isomorphic_files =
                   IF Get(results, "isomorphic", FALSE) THEN @ + 1 ELSE @,
               !.successful_conversions =
                   IF /\ Get(Get(results, "steps", EmptyDict), "html_to_tei", "") = "Success"
                      /\ Get(Get(results, "steps", EmptyDict), "tei_to_html", "") = "Success"
                   THEN @ + 1 ELSE @]
    /\ file_idx' = file_idx + 1
    /\ vpc' = "batch"
    /\ UNCHANGED <<time_imported, original_html, final_html, results, valLocals,
                   buildFiles, calls, tool_failed, other_pc, html_files>>
    /\ UNCHANGED notVal

\* lines 846-856: the summary; a rate is the pair of its numerator and its
\* denominator, and dividing by len([]) raises ZeroDivisionError
BatchReturn ==
    /\ vpc = "batch"
    /\ file_idx > Len(html_files)
    /\ IF html_files = <<>>
       THEN /\ vpc' = "raised"
            /\ batch' = batch
       ELSE /\ vpc' = "returned"
            /\ batch' =
                   [batch EXCEPT
                       !.summary =
                           [conversion_success_rate |->
                                <<batch.successful_conversions, Len(html_files)>>,
                            isomorphism_rate |->
                                <<batch.isomorphic_files, Len(html_files)>>,
                            total_errors |->
                                Cardinality({k \in DOMAIN batch.file_results :
                                                "error" \in DOMAIN batch.file_results[k]})]]
    /\ UNCHANGED <<time_imported, original_html, final_html, results, valLocals,
                   buildFiles, calls, tool_failed, other_pc, html_files, file_idx>>
    /\ UNCHANGED notVal

InitBatch ==
    /\ InlineIdle
    /\ SegIdle
    /\ ParseIdle
    /\ SerIdle
    /\ vpc = "batch"
    /\ time_imported \in BOOLEAN
    /\ original_html = Blank
    /\ final_html = Blank
    /\ results = EmptyDict
    /\ CompareIdle
    /\ CheckIdle
    /\ html_files \in FileLists(MaxFiles)
    /\ file_idx = 1
    /\ batch = NewBatch(html_files)

NextBatch == BatchCall \/ NextVal \/ BatchRecord \/ BatchReturn

SpecBatch == InitBatch /\ [][NextBatch]_vars

\* the results of the items the loop has finished, in order: history kept
\* apart from the dictionary, which a repeated path overwrites
ItemsDone == file_idx - 1

\* C15: for every non-empty list, the check is run on every item in order,
\* one result is recorded per item, successful_conversions is the number of
\* items whose two steps both succeeded and isomorphic_files the number of
\* items with isomorphic true.
C15_BatchAccumulatesPerItem ==
    vpc = "returned" =>
        /\ ItemsDone = Len(html_files)
        /\ Cardinality(DOMAIN batch.file_results) = Len(html_files)
        /\ batch.successful_conversions =
               Cardinality({k \in DOMAIN batch.file_results :
                   /\ Get(batch.file_results[k].steps, "html_to_tei", "") = "Success"
                   /\ Get(batch.file_results[k].steps, "tei_to_html", "") = "Success"})
        /\ batch.isomorphic_files =
               Cardinality({k \in DOMAIN batch.file_results :
                               batch.file_results[k].isomorphic})

(***************************************************************************)
(* Two checks on one work directory: test_isomorphism step by step, and    *)
(* what a second, concurrent check of another document writes there        *)
(***************************************************************************)
\* lines 690-700 in the second check: it cleans its own two files and writes
\* them to build/orig_clean.xhtml and build/final_clean.xhtml, the paths every
\* check uses (lines 693-694 do not depend on the document).  The second
\* check is of a document of BatchForms whose derived file has the content of
\* its original.
OtherCompareClean ==
    /\ other_pc = "running"
    /\ \E f \in BatchForms \ {original_html} :
          \E o1 \in ToolOutcomes \ {"missing"}, o2 \in ToolOutcomes \ {"missing"} :
             /\ orig_file' = CleanHtmlWithTidy(f, o1)
             /\ final_file' = CleanHtmlWithTidy(f, o2)
    /\ other_pc' = "cleaned"
    /\ UNCHANGED <<vpc, time_imported, original_html, final_html, results,
                   valLocals, calls, tool_failed, batchVars>>
    /\ UNCHANGED notVal

InitConc ==
    /\ InlineIdle
    /\ SegIdle
    /\ ParseIdle
    /\ SerIdle
    /\ time_imported \in BOOLEAN
    /\ \E f \in Forms : CheckStart(f)
    /\ orig_file = Blank
    /\ final_file = Blank
    /\ other_pc = "running"
    /\ BatchIdle

NextConc == NextVal \/ OtherCompareClean

SpecConc == InitConc /\ [][NextConc]_vars

\* the verdict test_isomorphism gives on the two documents of this check when
\* every tool call succeeds
VerdictAlone ==
    /\ original_html.sections = final_html.sections
    /\ original_html.headings = final_html.headings
    /\ Sorted(original_html.links) = Sorted(final_html.links)

\* C20: a check that runs concurrently with a check of another document reads
\* only the cleaned files it wrote itself, and reports what it reports when
\* run alone: with every tool call of its own succeeding, the verdict on its
\* own two documents.
C20_ConcurrentChecksIndependent ==
    /\ vpc \in {"structure", "headings", "links"} =>
           orig_file = orig_clean /\ final_file = final_clean
    /\ (vpc = "done" /\ BothStepsSucceeded /\ ~tool_failed) =>
           results.isomorphic = VerdictAlone

\* the characters the six inline patterns look for
Markers == {"!", "[", "]", "(", ")", BT, "$", "*"}

MarkerFree(t) == \A i \in 1..Len(t) : t[i] \notin Markers

\* C16: for a text that holds none of the special markers _parse_inline
\* returns exactly one text node whose content is the input; for the empty
\* text it returns the empty list.
C16_ScannerBaseCases ==
    (ipc = "done" /\ MarkerFree(itext)) =>
        nodes = IF itext = <<>> THEN <<>>
                ELSE <<ASTNode("text", StrV(itext), NoneV, NoneV)>>

\* C16 witness: a finished scan of a marker-free text that begins and ends
\* with a blank, returned as one node.
C16_Witness ==
    /\ ipc = "done"
    /\ itext = <<" ", "a", " ">>
    /\ Len(nodes) = 1
    /\ nodes[1].content = StrV(itext)

\* the number of characters of the text a node was read from
RECURSIVE SrcLen(_)
RECURSIVE SrcLenAll(_)
SrcLen(n) ==
    CASE n.type = "text" -> Len(n.content.val)
      [] n.type \in {"inline_code", "inline_math"} -> Len(n.content.val) + 2
      [] n.type = "emphasis" -> SrcLenAll(n.content.val) + 2
      [] n.type = "strong" -> SrcLenAll(n.content.val) + 4
      [] n.type = "link" -> SrcLenAll(n.content.val) + Len(n.attributes.href.val) + 4
      [] n.type = "image" ->
           Len(n.attributes.alt.val) + Len(n.attributes.src.val) + 5

SrcLenAll(ns) == IF ns = <<>> THEN 0 ELSE SrcLen(Head(ns)) + SrcLenAll(Tail(ns))

\* the offsets in the text at which the strong and emphasis nodes of ns, and
\* of the nodes inside them, start, when ns starts at offset off
RECURSIVE FormatStarts(_, _)
FormatStarts(ns, off) ==
    IF ns = <<>> THEN {}
    ELSE LET n == Head(ns)
         IN  (CASE n.type = "emphasis" -> {off} \cup FormatStarts(n.content.val, off + 1)
                [] n.type = "strong" -> {off} \cup FormatStarts(n.content.val, off + 2)
                [] n.type = "link" -> FormatStarts(n.content.val, off + 1)
                [] OTHER -> {})
             \cup FormatStarts(Tail(ns), off + SrcLen(n))

\* C17: when an inline_code or inline_math span matches in the text, no strong
\* or emphasis node starts at an offset inside that span.
C17_CodeAndMathShadowFormatting ==
    ipc = "done" =>
        \A name \in {"inline_code", "inline_math"} :
            Search(name, itext).found =>
                \A e \in FormatStarts(nodes, 1) :
                    ~(Search(name, itext).start <= e /\ e <= Search(name, itext).end)

\* an element and the elements below it
RECURSIVE Descendants(_)
Descendants(e) ==
    {e} \cup UNION {Descendants(e.children[i]) : i \in 1..Len(e.children)}

\* N "#" characters, a space and the title
HeadingSource(n, title) == [i \in 1..n |-> "#"] \o <<" ">> \o title

\* the value of the type attribute of the head of a heading of level n
HeadingType ==
    <<"heading-1", "heading-2", "heading-3", "heading-4", "heading-5", "heading-6">>

\* the content of the only page of the site, NoneV when there is none
PageContent ==
    IF Len(pages) = 1 /\ "content" \in DOMAIN pages[1].info
    THEN pages[1].info["content"] ELSE NoneV

\* C18: for every level N in 1..6 and marker-free title T, parsing the text
\* of N "#" characters, a space and T and serializing the tree completes
\* without error and yields a head element of type heading-N with text T.
C18_HeadingLevelRoundTrip ==
    \A n \in 1..6 :
        (gpc \in {"done", "raised"} /\ PageContent = StrV(HeadingSource(n, <<"T">>))) =>
            /\ outputs[Len(outputs)].tag = "xml"
            /\ \E e \in Descendants(outputs[Len(outputs)].root) :
                  /\ e.tag = "head"
                  /\ Get(e.attrib, "type", NoneV) = Lit(HeadingType[n])
                  /\ e.text = StrV(<<"T">>)

\* the node kinds _convert_ast_to_tei has no branch for
UnmappedKinds ==
    {"table", "table_row", "table_cell", "thematic_break", "raw_html", "metadata"}

\* the kinds of the children of the parsed document, in order
ChildKinds == [i \in 1..Len(doc_node.content.val) |-> doc_node.content.val[i].type]

\* C19: when the tree holds a node of a kind without mapping, serializing it
\* raises no error, no element is produced for that node, and the sibling
\* nodes of mapped kinds are serialized in their order: the element of the
\* document has one child per mapped sibling.
C19_UnmappedKindsDegrade ==
    (gpc \in {"done", "raised"} /\ PageContent.tag = "str" /\ ppc = "done"
        /\ \E i \in DOMAIN ChildKinds : ChildKinds[i] \in UnmappedKinds) =>
        /\ outputs[Len(outputs)].tag = "xml"
        /\ \E e \in Descendants(outputs[Len(outputs)].root) :
              /\ e.tag = "div"
              /\ Get(e.attrib, "type", NoneV) = Lit("document")
              /\ Len(e.children) =
                     Cardinality({i \in DOMAIN ChildKinds : ChildKinds[i] \in MappedKinds})

\* a transformation call is waiting for an external process that never exits
TransformationHangs == vpc = "blocked"

\* the check returned a report that records the step it stopped at as Failed
ReturnedFailedStep ==
    /\ vpc = "done"
    /\ \E op \in {"html_to_tei", "tei_to_html"} : Get(results.steps, op, "") = "Failed"
    /\ results.comparisons = EmptyDict
    /\ results.isomorphic = FALSE

\* C21: a transformation call whose external process does not finish is cut
\* off by the timeout, recorded as a failed step of the check, and the check
\* returns its report: the check always terminates.
C21_BoundedTransformations == TransformationHangs ~> ReturnedFailedStep

\* the kinds whose content is a str, a list of nodes, or None
StringKinds == {"text", "inline_code", "inline_math", "code_block", "math_block"}

SequenceKinds ==
    {"document", "heading", "paragraph", "list", "list_item", "table", "table_row",
     "table_cell", "quote", "link", "emphasis", "strong"}

EmptyKinds == {"image", "thematic_break"}

\* the kind every child of a node of the kind must have
ChildKind == [list |-> "list_item", table |-> "table_row", table_row |-> "table_cell"]

RECURSIVE ContentFixedByKind(_)
ContentFixedByKind(n) ==
    /\ n.type \in StringKinds => n.content.tag = "str"
    /\ n.type \in SequenceKinds => n.content.tag = "list"
    /\ n.type \in EmptyKinds => n.content = NoneV
    /\ n.content.tag = "list" =>
           \A i \in 1..Len(n.content.val) :
               /\ n.type \in DOMAIN ChildKind => n.content.val[i].type = ChildKind[n.type]
               /\ ContentFixedByKind(n.content.val[i])

\* C22: in every tree parse returns, the content of a node is the variant its
\* kind fixes (a string, a sequence of nodes, or nothing), every child of a
\* list is a list_item, every child of a table a table_row and every child of
\* a table_row a table_cell.
C22_ContentVariantFixedByKind ==
    ppc = "done" => ContentFixedByKind(doc_node)

\* C22 witness: a returned tree with a list of two items, the items holding
\* text nodes.
C22_Witness ==
    /\ ppc = "done"
    /\ Len(doc_node.content.val) = 1
    /\ doc_node.content.val[1].type = "list"
    /\ Len(doc_node.content.val[1].content.val) = 2
    /\ {"list_item", "text"} \subseteq TypesIn(doc_node.content.val)

(***************************************************************************)
(* C23: the three states of _split_into_blocks                             *)
(***************************************************************************)
\* the state the two flags of lines 170-171 encode
InFence == in_code_block /\ ~in_math_block
InMath == in_math_block /\ ~in_code_block
Normal == ~in_code_block /\ ~in_math_block

\* C23: while _split_into_blocks consumes lines it is in exactly one of
\* Normal, InFence and InMath: the fence flag and the math flag are never
\* both set.
C23_StatesMutuallyExclusive ==
    spc \in {"loop", "returned"} => (Normal \/ InFence \/ InMath)

(***************************************************************************)
(* C28: a math marker line opens, and the lines after it accumulate        *)
(***************************************************************************)
\* C28: a line containing "$$" seen in Normal switches the segmenter to
\* InMath and leaves it there, even when the line holds the marker twice;
\* in InMath every line without "$$", blank or not, is appended to the open
\* segment and emits nothing, and the segmenter stays in InMath.
C28_MathMarkerOpensAndAccumulates ==
    [][(spc = "loop" /\ li <= Len(lines)) =>
          /\ (Normal /\ HasMath(lines[li])) => InMath'
          /\ (InMath /\ ~HasMath(lines[li])) =>
                /\ blocks' = blocks
                /\ current_block' = current_block \o lines[li] \o <<NL>>
                /\ InMath']_vars

(***************************************************************************)
(* C24: what parse removes in front of the content                         *)
(***************************************************************************)
\* the leading front-matter block of the text parse was called on
LeadingBlock == MetaMatchAt(Split(markdown_text, NL), 1)

\* every line after the leading block, joined as the text was
AfterLeadingBlock ==
    LET ls == Split(markdown_text, NL)
    IN  Join(SubStr(ls, LeadingBlock.next, Len(ls)), NL)

\* C24: when the text begins with a front-matter block, the text handed to
\* _split_into_blocks is the text without exactly that block: every line after
\* it, a later block between two "---" lines included (surrounding blank
\* space aside, which strip() removes).
C24_OnlyLeadingBlockRemoved ==
    (ppc \in {"split", "done"} /\ LeadingBlock.found) =>
        Strip(text) = Strip(AfterLeadingBlock)

(***************************************************************************)
(* C25: the identifier of a page                                           *)
(***************************************************************************)
\* the identifier the table of contents refers to for page i
TocPageId(i) == From(tei.toc[i].children[1].attrib.target.val, 2)

\* url with every character outside letters, digits, "_" and "-" replaced
Sanitized(url) ==
    [i \in 1..Len(url) |->
        IF url[i] \in Letters \cup Digits \cup {"_", "-"} THEN url[i] ELSE "_"]

\* the sanitized token with "_" put in front of a first character that is
\* neither a letter nor "_", every character kept, cut to IdLimit characters
PrefixedToken(url) ==
    LET s == Sanitized(url)
        p == IF s # <<>> /\ s[1] \notin Letters \cup {"_"} THEN <<"_">> \o s ELSE s
    IN  SubStr(p, 1, IF Len(p) < IdLimit THEN Len(p) ELSE IdLimit)

\* C25: the identifier of a page is its url with the disallowed characters
\* replaced by "_", an underscore put in front when the first character is
\* not a letter or underscore (all characters kept), cut to 50 characters;
\* the random-suffix identifier is used exactly when that token is empty.
C25_PageIdSanitization ==
    \A i \in 1..Len(tei.toc) :
        IF PrefixedToken(pages[i].url) # <<>>
        THEN TocPageId(i) = PrefixedToken(pages[i].url)
        ELSE TocPageId(i) \in {<<"p", "a", "g", "e", "_">> \o h : h \in Hex8}

(***************************************************************************)
(* C26: the list node of a list segment                                    *)
(***************************************************************************)
\* the line matches the numbered-item pattern
IsNumberedLine(l) == OrderedItemMatch(l).found

\* the lines of a segment that match the bullet or the numbered pattern
ItemLines(block) ==
    SelectSeq(Split(block, NL),
              LAMBDA l : IsNumberedLine(l) \/ ListItemMatch(l).found)

\* the text of an item line behind its marker
ItemText(l) == IF IsNumberedLine(l) THEN OrderedItemMatch(l).g1 ELSE ListItemMatch(l).g1

\* C26: the list node built from a list segment has ordered = true exactly
\* when some line of the segment, the first or a later one, matches the
\* numbered-item pattern, and one list_item per line that matches the bullet
\* or the numbered pattern, in line order, holding the scan of that line.
C26_OrderedFlagSticky ==
    ppc = "done" =>
        \A i \in 1..Len(doc_node.content.val) :
            LET child == doc_node.content.val[i]
                ls == Split(blocks[i], NL)
                items == ItemLines(blocks[i])
            IN  child.type = "list" =>
                    /\ child.attributes.ordered =
                           BoolV(\E j \in 1..Len(ls) : IsNumberedLine(ls[j]))
                    /\ Len(child.content.val) = Len(items)
                    /\ \A k \in 1..Len(items) :
                           /\ child.content.val[k].type = "list_item"
                           /\ child.content.val[k].content =
                                  ListV(ParseInline(ItemText(items[k])))

\* a list whose first line is a bullet and whose second line is numbered
C26_Witness ==
    /\ ppc = "done"
    /\ Len(doc_node.content.val) = 1
    /\ doc_node.content.val[1].type = "list"
    /\ doc_node.content.val[1].attributes.ordered = BoolV(TRUE)
    /\ Len(doc_node.content.val[1].content.val) = 2
    /\ ~IsNumberedLine(Split(blocks[1], NL)[1])
    /\ IsNumberedLine(Split(blocks[1], NL)[2])

(***************************************************************************)
(* C27: the children of the Document and the segments                      *)
(***************************************************************************)
\* C27: the Document has one top-level child per segment that
\* _split_into_blocks emitted: while the loop over the segments runs the
\* children are the nodes of the segments handled so far, at the return
\* there are as many children as segments, and the i-th child is the node
\* _parse_block builds from the i-th segment alone.
C27_OneNodePerSegment ==
    (ppc \in {"split", "done"} /\ spc = "returned") =>
        /\ Len(doc_node.content.val) = bi - 1
        /\ ppc = "done" => Len(doc_node.content.val) = Len(blocks)
        /\ \A i \in 1..Len(doc_node.content.val) :
               doc_node.content.val[i] = ParseBlock(blocks[i])

\* a document of two segments of different kinds, one of them without content
C27_Witness ==
    /\ ppc = "done"
    /\ Len(blocks) = 2
    /\ Len(doc_node.content.val) = 2
    /\ doc_node.content.val[1].type # doc_node.content.val[2].type
    /\ \E i \in 1..2 : ~Truthy(doc_node.content.val[i].content)

(***************************************************************************)
(* C29: the counters of a batch                                            *)
(***************************************************************************)
\* the report of one item records both transformations as Success
BothStepsSuccess(r) ==
    /\ Get(Get(r, "steps", EmptyDict), "html_to_tei", "") = "Success"
    /\ Get(Get(r, "steps", EmptyDict), "tei_to_html", "") = "Success"

\* C29: during and after batch_test_isomorphism over a non-empty list,
\* isomorphic_files <= successful_conversions <= total_files, and every item
\* whose report says isomorphic = true has both steps recorded as Success.
C29_BatchCountersConsistent ==
    (html_files # <<>> /\ vpc \in {"batch", "returned"}) =>
        /\ batch.isomorphic_files <= batch.successful_conversions
        /\ batch.successful_conversions <= batch.total_files
        /\ \A k \in DOMAIN batch.file_results :
               Get(batch.file_results[k], "isomorphic", FALSE) =>
                   BothStepsSuccess(batch.file_results[k])

\* a batch of two files that both converted, one of them isomorphic
C29_Witness ==
    /\ vpc = "returned"
    /\ batch.total_files = 2
    /\ batch.successful_conversions = 2
    /\ batch.isomorphic_files = 1

(***************************************************************************)
(* C30: the heading node of a heading segment                              *)
(***************************************************************************)
\* the first line of a segment
FirstLine(block) == Split(block, NL)[1]

\* the number of "#" characters a line starts with
LeadingHashes(l) == RunLen(l, 1, {"#"})

\* what follows the "#" characters and the blank space behind them on the line
RestOfLine(l) == LStrip(From(l, LeadingHashes(l) + 1))

\* C30: the node of a segment classified as heading has the number of leading
\* "#" characters as its level and the inline scan of the rest of the first
\* line as its children, and holds nothing else: no further line of the
\* segment appears in the tree.
C30_HeadingKeepsFirstLineOnly ==
    ppc = "done" =>
        \A i \in 1..Len(doc_node.content.val) :
            doc_node.content.val[i].type = "heading" =>
                doc_node.content.val[i] =
                    ASTNode("heading",
                            ListV(ParseInline(RestOfLine(FirstLine(blocks[i])))),
                            [level |-> IntV(LeadingHashes(FirstLine(blocks[i])))],
                            NoneV)

====
